---- MODULE Spec2Model ----
(***************************************************************************)
(* SwiftScript: the debug controller (src/src/common/ss_debug.cpp), the    *)
(* debug adapter that drives it (src/src/debugger/dap_server.cpp) and the  *)
(* closure / property opcodes of the VM (src/include/ss_vm_opcodes.inl).   *)
(***************************************************************************)
EXTENDS Integers, Sequences, FiniteSets, Bags, TLC

\* ------------------------------------------------------------------ bounds
\* Source lines are 1..MaxLine; 0 is "no line information".
MaxLine == 2
\* Largest call depth (call_frames().size()) the VM reaches.
MaxDepth == 1
\* Largest number of breakpoints stored at once.
MaxBps == 1
\* Cap on a breakpoint's hit_count (a uint32_t counter in the code).
MaxHits == 2

Lines == 1..MaxLine

\* SpecDbg: the (normalised) source of the bodies the VM runs, and the sources
\* given to add_breakpoint ("" = any body; "/p/b.ss" matches none of them).
BodySources == {"/p/a.ss"}
BpSources == {"", "/p/b.ss"}

StepModes == {"None", "StepOver", "StepInto", "StepOut"}

\* ------------------------------------------------------------------ state
VARIABLES
    \* DebugController (ss_debug.hpp:124-155)
    breakpoints_, line_to_bp_, next_breakpoint_id_,
    step_mode_, step_frame_depth_, step_start_line_, skip_bp_on_resume_,
    paused_, pause_requested_, blocking_mode_, prev_line_,
    \* the execution thread: where it is, and the line, source and call depth
    \* (call_frames().size()) of the instruction it has just dispatched
    vm_pc, cur_line, cur_source, depth,
    \* what the last on_instruction call returned / handed to the callback
    hook_ret, hook_event,
    \* history: the last control command if it was issued while paused_
    \* ("none" otherwise), the line and depth the VM was suspended at then,
    \* whether the hook has since been called with a known line other than
    \* that line, and the last known line the hook was called with
    cmd_at_pause, cmd_line, cmd_depth, line_moved, seen_line,
    \* DapServer (dap_server.hpp:97-113): the adapter thread's position and
    \* the request it is serving, the holder of DebugController::mutex_,
    \* the launch flags, whether vm_ exists, and the reasons of the stopped
    \* events sent so far, in sending order
    apc, acmd, mutex_, stop_on_entry_, entry_reported_, vm_launched,
    vm_running_, disconnecting_, stopped_events,
    \* the VM's operand stack, call frames, and the upvalue and closure
    \* objects of its heap (spec 3, 4.D); latest and last_read are history:
    \* the value last written to each variable, and what the last
    \* GET_UPVALUE read
    stack_, call_frames_, upvalues, closures, latest, last_read,
    \* the instance objects of the heap, the locals a and b holding handles
    \* to them (0: unset) and the error the VM stopped with ("" if none);
    \* history: the kind of the value b was assigned from a ("none" before),
    \* the value last written to each property of that value through a or b
    \* (-1: none), the local of the last SET_PROPERTY, and what the last
    \* GET_PROPERTY read
    heap, locals, prop_error, linked, put, wrote, last_get,
    \* the class objects, the class whose declaration is running (0: none)
    \* and the error the VM stopped with; history: the prototypes of the
    \* methods each class declares, and the classes a method of which ran
    classes, defining, link_error, declared, executed,
    \* history: the debug events of the pauses taken so far, in the order
    \* in which paused_ was set
    \* and what made the hook take each of them
    pauses, causes,
    \* the VM's instruction pointer and current method body (spec 4.D);
    \* history: what the last get_stack_trace and the last get_locals gave
    ip_, body_, trace, locals_out,
    \* the class of the script (its property descriptors and methods) and the
    \* fields of its one instance; the locals of a running OP_SET_PROPERTY;
    \* history: the last property instruction and the calls it made
    klass, fields, handler, acc, calls,
    \* the code of the chunk the arithmetic script runs (spec 3: chunk)
    code_,
    \* the compiler's command line run: its arguments and files, the locals
    \* of main, what it wrote, and how the process ended
    cli,
    \* the embedding context's native wrappers: the NativeObject at each
    \* address, SSContext_::engine_owned_objects and release_callback;
    \* history: the last call of the host, with the pointer it invalidated
    nat,
    \* history: the last call made on the controller's breakpoint table,
    \* with its arguments and what it returned
    mgr,
    \* history: what the last ss_debug_get_frame and ss_debug_get_locals
    \* calls of the host gave
    api,
    \* the process-wide registry of native functions and the contexts of
    \* the process, each with the names it registered
    reg,
    \* the DAP connection: the next seq of the server, the messages being
    \* sent by each thread, and the bytes written to the transport
    wire,
    \* history: the last inspection request of the session and the response
    \* it got
    insp

bpVars == <<breakpoints_, line_to_bp_, next_breakpoint_id_>>
stepVars == <<step_mode_, step_frame_depth_, step_start_line_, skip_bp_on_resume_>>
flagVars == <<paused_, pause_requested_, blocking_mode_, prev_line_>>
ctlVars == <<bpVars, stepVars, flagVars>>
vmVars == <<vm_pc, cur_line, cur_source, depth>>
hookVars == <<hook_ret, hook_event>>
histVars == <<cmd_at_pause, cmd_line, cmd_depth, line_moved, seen_line>>

dapVars == <<apc, acmd, mutex_, stop_on_entry_, entry_reported_, vm_launched,
             vm_running_, disconnecting_, stopped_events>>
upvVars == <<stack_, call_frames_, upvalues, closures, latest, last_read>>
propVars == <<heap, locals, prop_error, linked, put, wrote, last_get>>
inhVars == <<classes, defining, link_error, declared, executed>>
evtVars == <<pauses, causes>>
insVars == <<ip_, body_, trace, locals_out>>
accVars == <<klass, fields, handler, acc, calls>>
embVars == <<mgr, api, reg, wire, insp>>
extVars == <<code_, cli, nat, embVars>>
\* what the actions of SpecDbg, and of SpecDap and SpecSes, leave alone
nonDbgVars == <<dapVars, upvVars, propVars, inhVars, evtVars, insVars, accVars, extVars>>
nonDapVars == <<upvVars, propVars, inhVars, evtVars, insVars, accVars, extVars>>

vars == <<ctlVars, vmVars, hookVars, histVars, dapVars, upvVars, propVars, inhVars,
          evtVars, insVars, accVars, extVars>>

\* ------------------------------------------------- breakpoint management
\* A C++ index i of breakpoints_ is position i+1 of the sequence here.
\* line_to_bp_ (an unordered_multimap) is a bag of <<line, position>>.

add_breakpoint(line, source_file) ==
    /\ breakpoints_' = Append(breakpoints_,
            [id |-> next_breakpoint_id_, source_file |-> source_file,
             line |-> line, enabled |-> TRUE, hit_count |-> 0])
    /\ line_to_bp_' = line_to_bp_ (+) SetToBag({<<line, Len(breakpoints_) + 1>>})
    /\ next_breakpoint_id_' = next_breakpoint_id_ + 1

enable_breakpoint(breakpoint_id, enabled) ==
    /\ breakpoints_' =
         [i \in 1..Len(breakpoints_) |->
            IF /\ breakpoints_[i].id = breakpoint_id
               /\ \A j \in 1..(i - 1) : breakpoints_[j].id # breakpoint_id
            THEN [breakpoints_[i] EXCEPT !.enabled = enabled]
            ELSE breakpoints_[i]]
    /\ UNCHANGED <<line_to_bp_, next_breakpoint_id_>>

\* ------------------------------------------------------- hook helpers
paths_equal(a, b) ==
    a = b

check_breakpoint(line, source) ==
    \E e \in BagToSet(line_to_bp_) :
        /\ e[1] = line
        /\ e[2] <= Len(breakpoints_)
        /\ breakpoints_[e[2]].enabled
        /\ \/ breakpoints_[e[2]].source_file = ""
           \/ (source # "" /\ paths_equal(breakpoints_[e[2]].source_file, source))

\* ss_debug.cpp:170-175: one increment per index entry of the line whose
\* breakpoint is enabled (the source is not consulted again).
IncrementHitCounts(line) ==
    [i \in 1..Len(breakpoints_) |->
        IF breakpoints_[i].enabled /\ BagIn(<<line, i>>, line_to_bp_)
        THEN [breakpoints_[i] EXCEPT
                !.hit_count = @ + CopiesIn(<<line, i>>, line_to_bp_)]
        ELSE breakpoints_[i]]

\* Mutant: the one-shot skip flag is dropped at every hook call.
SkipAfterLineCheck_AlwaysClear(line_changed) ==
    FALSE

\* ss_debug.cpp:147-149
SkipAfterLineCheck(line_changed) ==
    IF line_changed THEN FALSE ELSE skip_bp_on_resume_

\* ss_debug.cpp:155-159
PauseRequestApplies ==
    pause_requested_

\* Mutant: the breakpoint check does not look at should_pause.
BreakpointApplies_IgnoresRequest(line, source, by_request, skip) ==
    ~skip /\ check_breakpoint(line, source)

\* ss_debug.cpp:165
BreakpointApplies(line, source, by_request, skip) ==
    ~by_request /\ ~skip /\ check_breakpoint(line, source)

\* Mutant: StepOver pauses like StepInto, whatever the depth.
StepConditionMet_OverLikeInto(mode, current_depth, frame_depth) ==
    mode \in {"StepInto", "StepOver"} \/ (mode = "StepOut" /\ current_depth < frame_depth)

\* ss_debug.cpp:182-201
StepConditionMet(mode, current_depth, frame_depth) ==
    CASE mode = "StepInto" -> TRUE
      [] mode = "StepOver" -> current_depth <= frame_depth
      [] mode = "StepOut"  -> current_depth < frame_depth
      [] OTHER             -> FALSE

\* ss_debug.cpp:179
StepApplies(line_changed, already, current_depth) ==
    /\ ~already
    /\ step_mode_ # "None"
    /\ line_changed
    /\ StepConditionMet(step_mode_, current_depth, step_frame_depth_)

\* ss_debug.cpp:213: the depth recorded for later step commands
RecordedDepth(current_depth) ==
    current_depth

\* ------------------------------------------------------ instruction hook
\* Mutant: an instruction without line information is handled as one on
\* line 0.
on_instruction_UnknownLineHandled(line, source, current_depth) ==
    LET line_changed == line # prev_line_
        fast == ~line_changed /\ ~pause_requested_ /\ step_mode_ = "None"
        skip == SkipAfterLineCheck(line_changed)
        by_request == PauseRequestApplies
        by_bp == BreakpointApplies(line, source, by_request, skip)
        by_step == StepApplies(line_changed, by_request \/ by_bp, current_depth)
        should_pause == by_request \/ by_bp \/ by_step
    IN  IF fast
        THEN /\ hook_ret' = FALSE
             /\ hook_event' = "None"
             /\ UNCHANGED ctlVars
        ELSE /\ prev_line_' = line
             /\ skip_bp_on_resume_' = skip
             /\ pause_requested_' = FALSE
             /\ breakpoints_' = IF by_bp THEN IncrementHitCounts(line)
                                         ELSE breakpoints_
             /\ step_mode_' = IF by_step THEN "None" ELSE step_mode_
             /\ paused_' = (should_pause \/ paused_)
             /\ step_frame_depth_' = IF should_pause THEN RecordedDepth(current_depth)
                                                     ELSE step_frame_depth_
             /\ step_start_line_' = IF should_pause THEN line ELSE step_start_line_
             /\ hook_ret' = should_pause
             /\ hook_event' = IF ~should_pause THEN "None"
                              ELSE IF by_bp THEN "BreakpointHit"
                              ELSE "StepCompleted"
             /\ UNCHANGED <<line_to_bp_, next_breakpoint_id_, blocking_mode_>>

\* on_instruction up to the point where it either returns false or has
\* decided to pause and has invoked the callback (ss_debug.cpp:122-219,
\* 231-234).  line = 0 stands for every "no line information" case
\* (no body, ip beyond the line table, line 0).
on_instruction(line, source, current_depth) ==
    LET line_changed == line # prev_line_
        fast == ~line_changed /\ ~pause_requested_ /\ step_mode_ = "None"
        skip == SkipAfterLineCheck(line_changed)
        by_request == PauseRequestApplies
        by_bp == BreakpointApplies(line, source, by_request, skip)
        by_step == StepApplies(line_changed, by_request \/ by_bp, current_depth)
        should_pause == by_request \/ by_bp \/ by_step
    IN  IF line = 0 \/ fast
        THEN /\ hook_ret' = FALSE
             /\ hook_event' = "None"
             /\ UNCHANGED ctlVars
        ELSE /\ prev_line_' = line
             /\ skip_bp_on_resume_' = skip
             /\ pause_requested_' = FALSE
             /\ breakpoints_' = IF by_bp THEN IncrementHitCounts(line)
                                         ELSE breakpoints_
             /\ step_mode_' = IF by_step THEN "None" ELSE step_mode_
             /\ paused_' = (should_pause \/ paused_)
             /\ step_frame_depth_' = IF should_pause THEN RecordedDepth(current_depth)
                                                     ELSE step_frame_depth_
             /\ step_start_line_' = IF should_pause THEN line ELSE step_start_line_
             /\ hook_ret' = should_pause
             /\ hook_event' = IF ~should_pause THEN "None"
                              ELSE IF by_bp THEN "BreakpointHit"
                              ELSE "StepCompleted"
             /\ UNCHANGED <<line_to_bp_, next_breakpoint_id_, blocking_mode_>>

\* ------------------------------------------------------ execution control
\* The flag writes of step_over / step_into / step_out / resume
\* (ss_debug.cpp:81-112); notify_resume is a separate step in blocking mode.
StepCommandMode(cmd) ==
    CASE cmd = "step_over" -> "StepOver"
      [] cmd = "step_into" -> "StepInto"
      [] cmd = "step_out"  -> "StepOut"
      [] OTHER             -> "None"

CommandSkipFlag(cmd) ==
    TRUE

ControlCommand(cmd) ==
    /\ step_mode_' = StepCommandMode(cmd)
    /\ skip_bp_on_resume_' = CommandSkipFlag(cmd)
    /\ paused_' = FALSE
    /\ pause_requested_' = IF cmd = "resume" THEN FALSE ELSE pause_requested_
    /\ cmd_at_pause' = IF paused_ THEN cmd ELSE "none"
    /\ cmd_line' = IF paused_ THEN cur_line ELSE 0
    /\ cmd_depth' = IF paused_ THEN depth ELSE 0
    /\ line_moved' = FALSE
    /\ UNCHANGED seen_line
    /\ UNCHANGED <<bpVars, step_frame_depth_, step_start_line_,
                   blocking_mode_, prev_line_>>

step_over == ControlCommand("step_over")

step_into == ControlCommand("step_into")

step_out == ControlCommand("step_out")

resume == ControlCommand("resume")

pause ==
    /\ pause_requested_' = TRUE
    /\ UNCHANGED <<bpVars, stepVars, paused_, blocking_mode_, prev_line_, histVars>>

\* A VM as constructed: the script's frame on an empty stack, no objects.
\* No upvalue read made by the last instruction.
NoRead ==
    [valid |-> FALSE, val |-> 0, written |-> 0, via |-> "slot", open |-> FALSE,
     by |-> 0, writer |-> 0]

\* No property read made by the last instruction.
NoGet ==
    [valid |-> FALSE, var |-> "a", name |-> "x", val |-> 0]

\* No get_locals call made since the last instruction.
NoLocals ==
    [valid |-> FALSE, frame |-> 0, vars |-> <<>>]

\* A VM as constructed, its call-frame stack apart.
VmNoFrames ==
    /\ klass = <<>>
    /\ fields = <<>>
    /\ handler = <<>>
    /\ acc = <<>>
    /\ calls = <<>>
    /\ code_ = <<>>
    /\ cli = <<>>
    /\ nat = <<>>
    /\ mgr = <<>>
    /\ api = <<>>
    /\ reg = <<>>
    /\ wire = <<>>
    /\ insp = <<>>
    /\ ip_ = 0
    /\ body_ = 1
    /\ trace = <<>>
    /\ locals_out = NoLocals
    /\ heap = <<>>
    /\ locals = [v \in {"a", "b"} |-> 0]
    /\ prop_error = ""
    /\ linked = "none"
    /\ put = [n \in {"x", "y"} |-> -1]
    /\ wrote = ""
    /\ last_get = NoGet
    /\ classes = <<>>
    /\ defining = 0
    /\ link_error = ""
    /\ declared = <<>>
    /\ executed = {}
    /\ stack_ = <<>>
    /\ upvalues = <<>>
    /\ closures = <<>>
    /\ latest = <<>>
    /\ last_read = NoRead

\* The same with the top level's window over the stack as frame 1.
VmEmpty ==
    /\ VmNoFrames
    /\ call_frames_ = <<[base |-> 0, closure |-> 0]>>

\* A DapServer as constructed (dap_server.hpp:102-113), no request served.
DapIdle ==
    /\ apc = "idle"
    /\ acmd = "none"
    /\ mutex_ = "free"
    /\ stop_on_entry_ = FALSE
    /\ entry_reported_ = FALSE
    /\ vm_launched = FALSE
    /\ vm_running_ = FALSE
    /\ disconnecting_ = FALSE
    /\ stopped_events = <<>>
    /\ pauses = <<>>
    /\ causes = <<>>

\* ------------------------------------------ SpecDbg: controller + one VM
\* The controller driven without blocking mode (the embedding API): the VM
\* dispatches an instruction, calls the hook, and is suspended while paused_.
DbgInit ==
    /\ breakpoints_ = <<>>
    /\ line_to_bp_ = EmptyBag
    /\ next_breakpoint_id_ = 1
    /\ step_mode_ = "None"
    /\ step_frame_depth_ = 0
    /\ step_start_line_ = 0
    /\ skip_bp_on_resume_ = FALSE
    /\ paused_ = FALSE
    /\ pause_requested_ = FALSE
    /\ blocking_mode_ = FALSE
    /\ prev_line_ = 0
    /\ vm_pc = "run"
    /\ cur_line = 0
    /\ cur_source = ""
    /\ depth = 0
    /\ hook_ret = FALSE
    /\ hook_event = "None"
    /\ cmd_at_pause = "none"
    /\ cmd_line = 0
    /\ cmd_depth = 0
    /\ line_moved = FALSE
    /\ seen_line = 0
    /\ DapIdle
    /\ VmEmpty

HitsBelowCap ==
    \A i \in 1..Len(breakpoints_) : breakpoints_[i].hit_count < MaxHits

\* The VM executes one instruction (any line or none, in the current frame,
\* one frame deeper after a call, one frame up after a return) and then calls
\* the hook on it.  The VM is suspended while paused_.
DbgStep ==
    /\ vm_pc = "run"
    /\ ~paused_
    /\ HitsBelowCap
    /\ \E l \in 0..MaxLine, s \in BodySources, d \in {depth - 1, depth, depth + 1} :
          /\ d \in 0..MaxDepth
          /\ cur_line' = l
          /\ cur_source' = s
          /\ depth' = d
          /\ on_instruction(l, s, d)
          /\ seen_line' = IF l = 0 THEN seen_line ELSE l
          /\ line_moved' = (line_moved \/ (l # 0 /\ cmd_at_pause # "none" /\ l # cmd_line))
    /\ UNCHANGED <<vm_pc, cmd_at_pause, cmd_line, cmd_depth, nonDbgVars>>

DbgAddBreakpoint ==
    /\ Len(breakpoints_) < MaxBps
    /\ \E l \in Lines, s \in BpSources : add_breakpoint(l, s)
    /\ UNCHANGED <<stepVars, flagVars, vmVars, hookVars, histVars, nonDbgVars>>

DbgStepOver ==
    step_over /\ UNCHANGED <<vmVars, hookVars, nonDbgVars>>

DbgStepInto ==
    step_into /\ UNCHANGED <<vmVars, hookVars, nonDbgVars>>

DbgStepOut ==
    step_out /\ UNCHANGED <<vmVars, hookVars, nonDbgVars>>

DbgResume ==
    resume /\ UNCHANGED <<vmVars, hookVars, nonDbgVars>>

DbgPause ==
    pause /\ UNCHANGED <<vmVars, hookVars, nonDbgVars>>

DbgNext ==
    \/ DbgStep
    \/ DbgAddBreakpoint
    \/ DbgStepOver
    \/ DbgStepInto
    \/ DbgStepOut
    \/ DbgResume
    \/ DbgPause

SpecDbg == DbgInit /\ [][DbgNext]_vars

\* ------------------------------------------------ properties under SpecDbg
\* A step of the hook that takes a pause: only on_instruction sets paused_.
NewPause ==
    ~paused_ /\ paused_'

\* Some stored breakpoint is enabled, on this line, and has no source or the
\* (non-empty) source of the body; stated on breakpoints_, not on the index.
EnabledMatch(line, source) ==
    \E i \in 1..Len(breakpoints_) :
        /\ breakpoints_[i].enabled
        /\ breakpoints_[i].line = line
        /\ (breakpoints_[i].source_file = ""
              \/ (source # "" /\ breakpoints_[i].source_file = source))

HitCounts ==
    [i \in 1..Len(breakpoints_) |-> breakpoints_[i].hit_count]

\* C1 (as stated): after step_over() issued at a pause taken at call depth d,
\* the next pause of the hook is at call depth <= d, whatever its cause.
C1_NextPauseNeverDeeper ==
    [][(cmd_at_pause = "step_over" /\ NewPause) => depth' <= cmd_depth]_vars

\* C1 (amended): after step_over() issued at a pause taken at call depth d,
\* the next pause is at call depth <= d unless it is taken for a breakpoint
\* hit or for a pending pause request.
C1_StepOverPauseNotDeeper ==
    [][(/\ cmd_at_pause = "step_over"
        /\ NewPause
        /\ hook_event' = "StepCompleted"
        /\ ~pause_requested_) => depth' <= cmd_depth]_vars

\* C1 witness: stepping over from a pause at depth d, the hook has been
\* called on another line inside a deeper frame and has not paused.
C1_Witness ==
    /\ cmd_at_pause = "step_over"
    /\ step_mode_ = "StepOver"
    /\ ~paused_
    /\ depth > cmd_depth
    /\ line_moved
    /\ seen_line = cur_line
    /\ hook_event = "None"

\* C3: after resume/step_over/step_into/step_out issued while paused on line
\* L, (a) no BreakpointHit pause is taken on L before the hook has been
\* called with a known line other than L, and (b) once it has, a call of the
\* hook that returns to L with an enabled matching breakpoint on L and no
\* pause request pending takes a BreakpointHit pause.
C3_SkipUntilLineChanges ==
    [][/\ (/\ cmd_at_pause # "none"
            /\ ~line_moved
            /\ NewPause
            /\ cur_line' = cmd_line) => hook_event' # "BreakpointHit"
       /\ (/\ cmd_at_pause # "none"
            /\ line_moved
            /\ seen_line # cmd_line
            /\ seen_line' = cmd_line
            /\ ~pause_requested_
            /\ EnabledMatch(cmd_line, cur_source'))
              => (paused_' /\ hook_event' = "BreakpointHit")]_vars

\* C3 witness: a command was issued at a pause on line L, the hook has since
\* seen another line, and the VM is now paused on L again by the breakpoint.
C3_Witness ==
    /\ cmd_at_pause # "none"
    /\ line_moved
    /\ paused_
    /\ hook_event = "BreakpointHit"
    /\ cur_line = cmd_line
    /\ \E i \in 1..Len(breakpoints_) : breakpoints_[i].hit_count = 2

\* The breakpoint cause as section 4.F states it: an enabled matching
\* breakpoint, unless the one-shot skip flag is set and the line is still
\* the line last seen.
BreakpointCause(line, source) ==
    /\ EnabledMatch(line, source)
    /\ ~(skip_bp_on_resume_ /\ line = seen_line)

StepCause(line, current_depth) ==
    /\ line # seen_line
    /\ \/ step_mode_ = "StepInto"
       \/ step_mode_ = "StepOver" /\ current_depth <= step_frame_depth_
       \/ step_mode_ = "StepOut" /\ current_depth < step_frame_depth_

\* C4: a pause is chosen by the first applicable cause in the order pause
\* request, breakpoint, step condition: a pending request gives one
\* StepCompleted pause and changes no hit_count nor the step mode; otherwise
\* an applicable breakpoint gives BreakpointHit and leaves the step mode;
\* otherwise the pause is a satisfied step condition, which ends the step.
C4_CausePriority ==
    [][NewPause =>
        /\ pause_requested_ =>
              /\ hook_event' = "StepCompleted"
              /\ HitCounts' = HitCounts
              /\ step_mode_' = step_mode_
              /\ ~pause_requested_'
        /\ (~pause_requested_ /\ BreakpointCause(cur_line', cur_source')) =>
              /\ hook_event' = "BreakpointHit"
              /\ step_mode_' = step_mode_
        /\ (~pause_requested_ /\ ~BreakpointCause(cur_line', cur_source')) =>
              /\ hook_event' = "StepCompleted"
              /\ StepCause(cur_line', depth')
              /\ step_mode_' = "None"
              /\ HitCounts' = HitCounts]_vars

\* C4 witness: paused by a pause request (StepCompleted with the step mode
\* still armed) on a line that has an applicable breakpoint, no hit counted.
C4_Witness ==
    /\ paused_
    /\ hook_event = "StepCompleted"
    /\ step_mode_ = "StepOver"
    /\ depth <= step_frame_depth_
    /\ ~skip_bp_on_resume_
    /\ EnabledMatch(cur_line, cur_source)
    /\ \A i \in 1..Len(breakpoints_) : breakpoints_[i].hit_count = 0

\* A step in which the VM has dispatched an instruction at another line,
\* source or depth than the last one, or the hook has answered otherwise:
\* a step of the VM and its hook, not a command.
HookCalled ==
    <<vmVars, hookVars>>' # <<vmVars, hookVars>>

\* C29: a hook call on an instruction without line information returns
\* false and leaves the previous line, the step mode, the skip flag, the
\* pending pause request, the paused flag and the hit counts as they were;
\* a pause request still pending is served by the next hook call on an
\* instruction that has a line.
C29_UnknownLineChangesNothing ==
    [][/\ (HookCalled /\ cur_line' = 0) =>
             /\ hook_ret' = FALSE
             /\ prev_line_' = prev_line_
             /\ step_mode_' = step_mode_
             /\ skip_bp_on_resume_' = skip_bp_on_resume_
             /\ pause_requested_' = pause_requested_
             /\ paused_' = paused_
             /\ HitCounts' = HitCounts
       /\ (HookCalled /\ cur_line' # 0 /\ pause_requested_) =>
             (hook_ret' /\ paused_' /\ ~pause_requested_')]_vars

\* C29 witness: the instruction last dispatched has no line, after one that
\* had; a pause request and a step over are pending, the skip flag is set,
\* and the VM runs on.
C29_Witness ==
    /\ cur_line = 0
    /\ prev_line_ # 0
    /\ seen_line = prev_line_
    /\ pause_requested_
    /\ step_mode_ = "StepOver"
    /\ skip_bp_on_resume_
    /\ ~paused_
    /\ hook_ret = FALSE
    /\ breakpoints_ # <<>>

\* C30: with step mode Out, no pause request pending and no breakpoint set,
\* a hook call on an instruction with a line pauses exactly if the call
\* depth is below the captured depth, and the step mode is None after the
\* pause.
C30_StepOutPausesBelowDepth ==
    [][(/\ HookCalled
        /\ cur_line' # 0
        /\ step_mode_ = "StepOut"
        /\ ~pause_requested_
        /\ breakpoints_ = <<>>) =>
           /\ hook_ret' <=> (depth' < step_frame_depth_)
           /\ hook_ret' => (paused_' /\ step_mode_' = "None")]_vars

\* ======================================================================
\* DapServer.  The adapter thread serves one request at a time
\* (DapServer::Run / Dispatch); the execution thread runs RunVM.  The
\* controller is in blocking mode, so a pausing hook parks the execution
\* thread on resume_cv_ under mutex_.
\*   SpecDap: the two threads statement by statement, in a session that
\*            sets no breakpoints (pauses come from stopOnEntry, pause
\*            requests and steps);
\*   SpecSes: the session request by request (each request served to its
\*            end, the execution thread parked while paused_), with
\*            breakpoints and the stopped events sent; the only pause
\*            request is the one of a stopOnEntry launch.
\* ======================================================================
\* Cap on the number of stopped events sent in one session.
MaxEvents == 2
\* Cap on next_breakpoint_id_ (a uint32_t counter in the code).
MaxBpIds == 2

\* The source path of the launched program, as weakly_canonical returns it.
DapSource == "/p/a.ss"

\* Lists of lines a setBreakpoints request can carry: distinct lines, in
\* ascending order.
LineLists ==
    {ls \in UNION {[1..n -> Lines] : n \in 0..MaxBps} :
        \A i \in 1..(Len(ls) - 1) : ls[i] < ls[i + 1]}

\* Mutant: the element is dropped from the end of the vector without the
\* last element being moved into the hole.
remove_breakpoint_PopOnly(tbl, breakpoint_id) ==
    LET hit == {i \in 1..Len(tbl.b) : tbl.b[i].id = breakpoint_id}
    IN  IF hit = {} THEN tbl
        ELSE LET i == CHOOSE k \in hit : \A j \in hit : k <= j
                 n == Len(tbl.b)
                 m1 == tbl.m (-) SetToBag({<<tbl.b[i].line, i>>})
                 m2 == IF i < n /\ BagIn(<<tbl.b[n].line, n>>, m1)
                       THEN (m1 (-) SetToBag({<<tbl.b[n].line, n>>}))
                                (+) SetToBag({<<tbl.b[n].line, i>>})
                       ELSE m1
             IN  [b |-> SubSeq(tbl.b, 1, n - 1), m |-> m2]

\* Mutant: the index entry of the moved element keeps its old position.
remove_breakpoint_IndexNotRepointed(tbl, breakpoint_id) ==
    LET hit == {i \in 1..Len(tbl.b) : tbl.b[i].id = breakpoint_id}
    IN  IF hit = {} THEN tbl
        ELSE LET i == CHOOSE k \in hit : \A j \in hit : k <= j
                 n == Len(tbl.b)
                 m1 == tbl.m (-) SetToBag({<<tbl.b[i].line, i>>})
                 b1 == IF i < n THEN [tbl.b EXCEPT ![i] = tbl.b[n]] ELSE tbl.b
             IN  [b |-> SubSeq(b1, 1, n - 1), m |-> m1]

\* ss_debug.cpp:29-61 on the pair (breakpoints_, line_to_bp_): erase one
\* index entry of the removed element, re-point the entry of the last
\* element, move the last element into the hole, pop.
remove_breakpoint(tbl, breakpoint_id) ==
    LET hit == {i \in 1..Len(tbl.b) : tbl.b[i].id = breakpoint_id}
    IN  IF hit = {} THEN tbl
        ELSE LET i == CHOOSE k \in hit : \A j \in hit : k <= j
                 n == Len(tbl.b)
                 m1 == tbl.m (-) SetToBag({<<tbl.b[i].line, i>>})
                 m2 == IF i < n /\ BagIn(<<tbl.b[n].line, n>>, m1)
                       THEN (m1 (-) SetToBag({<<tbl.b[n].line, n>>}))
                                (+) SetToBag({<<tbl.b[n].line, i>>})
                       ELSE m1
                 b1 == IF i < n THEN [tbl.b EXCEPT ![i] = tbl.b[n]] ELSE tbl.b
             IN  [b |-> SubSeq(b1, 1, n - 1), m |-> m2]

RECURSIVE RemoveForSource(_, _, _)
\* ss_debug.cpp:474-478: the backwards loop over breakpoints_
RemoveForSource(tbl, source, i) ==
    IF i = 0 THEN tbl
    ELSE IF tbl.b[i].source_file = source
         THEN RemoveForSource(remove_breakpoint(tbl, tbl.b[i].id), source, i - 1)
         ELSE RemoveForSource(tbl, source, i - 1)

RECURSIVE AddLines(_, _, _, _)
\* ss_debug.cpp:481-483: add_breakpoint for each line, ids counted from id
AddLines(tbl, source, lines, id) ==
    IF lines = <<>> THEN tbl
    ELSE AddLines([b |-> Append(tbl.b,
                        [id |-> id, source_file |-> source, line |-> Head(lines),
                         enabled |-> TRUE, hit_count |-> 0]),
                   m |-> tbl.m (+) SetToBag({<<Head(lines), Len(tbl.b) + 1>>})],
                  source, Tail(lines), id + 1)

\* source_file is given in normalised form (normalize_path is the identity
\* on DapSource).
set_breakpoints_for_source(source_file, lines) ==
    LET kept == RemoveForSource([b |-> breakpoints_, m |-> line_to_bp_],
                                source_file, Len(breakpoints_))
        tbl == AddLines(kept, source_file, lines, next_breakpoint_id_)
    IN  /\ breakpoints_' = tbl.b
        /\ line_to_bp_' = tbl.m
        /\ next_breakpoint_id_' = next_breakpoint_id_ + Len(lines)

\* Mutant: a completed step takes the callback's default branch.
StoppedReason_StepAsDefault(event) ==
    IF event = "BreakpointHit" THEN "breakpoint" ELSE "pause"

\* The callback installed by OnLaunch (dap_server.cpp:175-193): the reason
\* of the stopped event for a debug event.
StoppedReason(event) ==
    CASE event = "BreakpointHit" -> "breakpoint"
      [] event = "StepCompleted" ->
            IF stop_on_entry_ /\ ~entry_reported_ THEN "entry" ELSE "step"
      [] OTHER -> "pause"

\* ------------------------------------------------- the adapter thread
DapInit ==
    /\ breakpoints_ = <<>>
    /\ line_to_bp_ = EmptyBag
    /\ next_breakpoint_id_ = 1
    /\ step_mode_ = "None"
    /\ step_frame_depth_ = 0
    /\ step_start_line_ = 0
    /\ skip_bp_on_resume_ = FALSE
    /\ paused_ = FALSE
    /\ pause_requested_ = FALSE
    /\ blocking_mode_ = FALSE
    /\ prev_line_ = 0
    /\ vm_pc = "off"
    /\ cur_line = 0
    /\ cur_source = DapSource
    /\ depth = 0
    /\ hook_ret = FALSE
    /\ hook_event = "None"
    /\ cmd_at_pause = "none"
    /\ cmd_line = 0
    /\ cmd_depth = 0
    /\ line_moved = FALSE
    /\ seen_line = 0
    /\ DapIdle
    /\ VmEmpty

\* The adapter thread is between two requests.
AdapterIdle ==
    apc = "idle"

\* dap_server.cpp:145-209, a launch that compiles: blocking mode, the
\* callback, the VM, and pause() when stopOnEntry is given.
OnLaunch ==
    /\ AdapterIdle
    /\ ~vm_launched
    /\ \E soe \in BOOLEAN :
          /\ stop_on_entry_' = soe
          /\ pause_requested_' = (soe \/ pause_requested_)
    /\ blocking_mode_' = TRUE
    /\ vm_launched' = TRUE
    /\ UNCHANGED <<bpVars, stepVars, paused_, prev_line_, vmVars, hookVars, histVars,
                   apc, acmd, mutex_, entry_reported_, vm_running_,
                   disconnecting_, stopped_events>>
    /\ UNCHANGED nonDapVars

\* dap_server.cpp:212-238
OnSetBreakpoints ==
    /\ AdapterIdle
    /\ \E lines \in LineLists :
          /\ next_breakpoint_id_ + Len(lines) - 1 <= MaxBpIds
          /\ set_breakpoints_for_source(DapSource, lines)
    /\ UNCHANGED <<stepVars, flagVars, vmVars, hookVars, histVars, dapVars>>
    /\ UNCHANGED nonDapVars

\* dap_server.cpp:240-246: start the execution thread
OnConfigurationDone ==
    /\ AdapterIdle
    /\ vm_launched
    /\ ~vm_running_
    /\ vm_pc = "off"
    /\ vm_running_' = TRUE
    /\ vm_pc' = "run"
    /\ UNCHANGED <<ctlVars, cur_line, cur_source, depth, hookVars, histVars,
                   apc, acmd, mutex_, stop_on_entry_, entry_reported_, vm_launched,
                   disconnecting_, stopped_events>>
    /\ UNCHANGED nonDapVars

\* The first statements of step_over / step_into / step_out / resume
\* (ss_debug.cpp:82-85, 91-92, 98-99, 105-108): step_mode_ and
\* skip_bp_on_resume_ are written before paused_ is cleared.
CommandBegin(cmd, as) ==
    /\ step_mode_' = StepCommandMode(cmd)
    /\ skip_bp_on_resume_' = CommandSkipFlag(cmd)
    /\ cmd_at_pause' = IF paused_ THEN cmd ELSE "none"
    /\ line_moved' = FALSE
    /\ acmd' = as
    /\ apc' = "clear"
    /\ UNCHANGED <<bpVars, step_frame_depth_, step_start_line_, flagVars, vmVars,
                   hookVars, cmd_line, cmd_depth, seen_line, mutex_, stop_on_entry_, entry_reported_,
                   vm_launched, vm_running_, stopped_events>>

\* dap_server.cpp:327-332
OnContinue ==
    AdapterIdle /\ CommandBegin("resume", "resume") /\ UNCHANGED <<disconnecting_, nonDapVars>>

\* dap_server.cpp:334-337
OnNext ==
    AdapterIdle /\ CommandBegin("step_over", "step_over") /\ UNCHANGED <<disconnecting_, nonDapVars>>

\* dap_server.cpp:339-342
OnStepIn ==
    AdapterIdle /\ CommandBegin("step_into", "step_into") /\ UNCHANGED <<disconnecting_, nonDapVars>>

\* dap_server.cpp:344-347
OnStepOut ==
    AdapterIdle /\ CommandBegin("step_out", "step_out") /\ UNCHANGED <<disconnecting_, nonDapVars>>

\* ss_debug.cpp:86, 93, 100, 109: paused_ = false
CommandClearPaused ==
    /\ apc = "clear"
    /\ paused_' = FALSE
    /\ apc' = IF acmd \in {"resume", "disconnect"} THEN "request" ELSE "notify"
    /\ UNCHANGED <<bpVars, stepVars, pause_requested_, blocking_mode_, prev_line_,
                   vmVars, hookVars, histVars, acmd, mutex_, stop_on_entry_,
                   entry_reported_, vm_launched, vm_running_, disconnecting_,
                   stopped_events>>
    /\ UNCHANGED nonDapVars

\* ss_debug.cpp:110: resume() clears pause_requested_ after paused_
CommandClearRequest ==
    /\ apc = "request"
    /\ pause_requested_' = FALSE
    /\ apc' = "notify"
    /\ UNCHANGED <<bpVars, stepVars, paused_, blocking_mode_, prev_line_,
                   vmVars, hookVars, histVars, acmd, mutex_, stop_on_entry_,
                   entry_reported_, vm_launched, vm_running_, disconnecting_,
                   stopped_events>>
    /\ UNCHANGED nonDapVars

\* Mutant: notify_resume signals without holding mutex_.
NotifyResumeMayLock_NoMutex ==
    TRUE

\* ss_debug.cpp:492: notify_resume's lock_guard waits for mutex_
NotifyResumeMayLock ==
    mutex_ = "free"

\* notify_resume (ss_debug.cpp:491-494; blocking_mode_ is set): under
\* mutex_, resume_cv_.notify_one() wakes the execution thread if it is
\* blocked in the wait; it then has to re-take mutex_ and test the predicate.
CommandNotify ==
    /\ apc = "notify"
    /\ NotifyResumeMayLock
    /\ vm_pc' = IF vm_pc = "waiting" THEN "check" ELSE vm_pc
    /\ apc' = IF acmd = "disconnect" THEN "join" ELSE "idle"
    /\ acmd' = IF acmd = "disconnect" THEN acmd ELSE "none"
    /\ UNCHANGED <<ctlVars, cur_line, cur_source, depth, hookVars, histVars, mutex_,
                   stop_on_entry_, entry_reported_, vm_launched, vm_running_,
                   disconnecting_, stopped_events>>
    /\ UNCHANGED nonDapVars

\* dap_server.cpp:349-352
OnPause ==
    /\ AdapterIdle
    /\ pause
    /\ UNCHANGED <<vmVars, hookVars, dapVars>>
    /\ UNCHANGED nonDapVars

\* dap_server.cpp:362-364: disconnecting_ = true
OnDisconnect ==
    /\ AdapterIdle
    /\ disconnecting_' = TRUE
    /\ apc' = "disconnect"
    /\ acmd' = "disconnect"
    /\ UNCHANGED <<ctlVars, vmVars, hookVars, histVars, mutex_, stop_on_entry_,
                   entry_reported_, vm_launched, vm_running_, stopped_events>>
    /\ UNCHANGED nonDapVars

\* dap_server.cpp:365: if (controller_.is_paused()) controller_.resume();
DisconnectResume ==
    /\ apc = "disconnect"
    /\ IF paused_
       THEN CommandBegin("resume", "disconnect")
       ELSE /\ apc' = "join"
            /\ UNCHANGED <<ctlVars, vmVars, hookVars, histVars, acmd, mutex_,
                           stop_on_entry_, entry_reported_, vm_launched,
                           vm_running_, stopped_events>>
    /\ UNCHANGED <<disconnecting_, nonDapVars>>

\* dap_server.cpp:366-367: join the execution thread if it was started,
\* then exit the process.
DisconnectJoin ==
    /\ apc = "join"
    /\ vm_pc \in {"off", "done"}
    /\ apc' = "exited"
    /\ UNCHANGED <<ctlVars, vmVars, hookVars, histVars, acmd, mutex_, stop_on_entry_,
                   entry_reported_, vm_launched, vm_running_, disconnecting_,
                   stopped_events>>
    /\ UNCHANGED nonDapVars

\* ------------------------------------------------- the execution thread
\* VM::run inside RunVM (dap_server.cpp:377): dispatch one instruction (any
\* line or none, in the current frame, one deeper, one up) and call the hook
\* on it; a pausing hook invokes the callback (ss_debug.cpp:209-219), which
\* may set entry_reported_.
RunHook ==
    \E l \in 0..MaxLine, d \in {depth - 1, depth, depth + 1} :
        /\ d \in 0..MaxDepth
        /\ cur_line' = l
        /\ depth' = d
        /\ on_instruction(l, cur_source, d)
        /\ line_moved' = (line_moved \/ (l # 0 /\ cmd_at_pause # "none"
                                          /\ l # step_start_line_))
        /\ entry_reported_' = (entry_reported_ \/ (hook_ret' /\ stop_on_entry_
                                                    /\ hook_event' = "StepCompleted"))

\* The execution thread under SpecDap; the stopped event the callback sends
\* is an output that SpecSes records.
VmStep ==
    /\ vm_pc = "run"
    /\ RunHook
    /\ vm_pc' = IF hook_ret' /\ blocking_mode_ THEN "check" ELSE "run"
    /\ UNCHANGED <<cur_source, cmd_at_pause, cmd_line, cmd_depth, seen_line, apc,
                   acmd, mutex_, stop_on_entry_, vm_launched, vm_running_,
                   disconnecting_, stopped_events>>
    /\ UNCHANGED nonDapVars

\* Mutant: the wait's predicate is constantly true.
WaitPredicate_Absent ==
    TRUE

\* ss_debug.cpp:227: the predicate of resume_cv_.wait
WaitPredicate ==
    ~paused_

\* ss_debug.cpp:221-227: on entry (after the lock_guard block that signals
\* pause_cv_, on which nothing in the adapter waits) and after every wake-up
\* mutex_ is taken and the predicate tested; the hook returns if it holds.
VmWaitCheck ==
    /\ vm_pc = "check"
    /\ mutex_ = "free"
    /\ IF WaitPredicate
       THEN vm_pc' = "run" /\ UNCHANGED mutex_
       ELSE vm_pc' = "block" /\ mutex_' = "vm"
    /\ UNCHANGED <<ctlVars, cur_line, cur_source, depth, hookVars, histVars,
                   apc, acmd, stop_on_entry_, entry_reported_, vm_launched,
                   vm_running_, disconnecting_, stopped_events>>
    /\ UNCHANGED nonDapVars

\* condition_variable::wait: release mutex_ and block, atomically.
VmWaitBlock ==
    /\ vm_pc = "block"
    /\ vm_pc' = "waiting"
    /\ mutex_' = "free"
    /\ UNCHANGED <<ctlVars, cur_line, cur_source, depth, hookVars, histVars,
                   apc, acmd, stop_on_entry_, entry_reported_, vm_launched,
                   vm_running_, disconnecting_, stopped_events>>
    /\ UNCHANGED nonDapVars

\* condition_variable::wait may wake up without a notification.
VmSpuriousWake ==
    /\ vm_pc = "waiting"
    /\ vm_pc' = "check"
    /\ UNCHANGED <<ctlVars, cur_line, cur_source, depth, hookVars, histVars, dapVars>>
    /\ UNCHANGED nonDapVars

\* dap_server.cpp:377-388: execute returns (the program has ended), the
\* thread function clears vm_running_ and ends.
VmHalt ==
    /\ vm_pc = "run"
    /\ vm_pc' = "done"
    /\ vm_running_' = FALSE
    /\ UNCHANGED <<ctlVars, cur_line, cur_source, depth, hookVars, histVars,
                   apc, acmd, mutex_, stop_on_entry_, entry_reported_, vm_launched,
                   disconnecting_, stopped_events>>
    /\ UNCHANGED nonDapVars

\* std::exit(0) ends both threads.
Running ==
    apc # "exited"

DapNext ==
    \/ Running /\ OnLaunch
    \/ Running /\ OnConfigurationDone
    \/ Running /\ OnContinue
    \/ Running /\ OnNext
    \/ Running /\ OnStepIn
    \/ Running /\ OnStepOut
    \/ Running /\ OnPause
    \/ Running /\ OnDisconnect
    \/ CommandClearPaused
    \/ CommandClearRequest
    \/ CommandNotify
    \/ DisconnectResume
    \/ DisconnectJoin
    \/ Running /\ VmStep
    \/ Running /\ VmWaitCheck
    \/ Running /\ VmWaitBlock
    \/ Running /\ VmSpuriousWake
    \/ Running /\ VmHalt

SpecDap == DapInit /\ [][DapNext]_vars

\* Scheduling: a thread that can take its next statement eventually takes it
\* (a mutex that keeps becoming free is eventually acquired), and the
\* program being run is one that ends: HALT is eventually dispatched if the
\* VM keeps dispatching.  Nothing obliges the client to send a request, the
\* VM to take a particular instruction, or a wait to wake up spuriously.
DapFairness ==
    /\ WF_vars(CommandClearPaused)
    /\ WF_vars(CommandClearRequest)
    /\ SF_vars(CommandNotify)
    /\ WF_vars(DisconnectResume)
    /\ WF_vars(DisconnectJoin)
    /\ SF_vars(Running /\ VmWaitCheck)
    /\ WF_vars(Running /\ VmWaitBlock)
    /\ SF_vars(Running /\ VmHalt)

FairSpecDap == SpecDap /\ DapFairness

\* ------------------------------------------------ properties under SpecDap
\* The execution thread is inside on_instruction, past the decision to pause.
InHook ==
    vm_pc \in {"check", "block", "waiting"}

\* C8: in blocking mode, while paused_ the execution thread is inside the
\* hook and dispatches nothing; and once it is back in the run loop after a
\* control command issued at the pause (and no later one), step_mode_ is the
\* mode that command set, so that is the mode its next hook call sees.
C8_ParkedUntilCommand ==
    /\ paused_ => InHook
    /\ (vm_pc = "run" /\ cmd_at_pause # "none")
            => step_mode_ = StepCommandMode(cmd_at_pause)

\* The thread has been woken by a `next` issued at a pause and is about to
\* dispatch with StepOver in force.
C8_Witness ==
    /\ vm_pc = "run"
    /\ hook_ret
    /\ ~paused_
    /\ apc = "idle"
    /\ cmd_at_pause = "step_over"
    /\ step_mode_ = "StepOver"

\* C9: once the execution thread has set paused_ and the adapter is in a
\* resume / step call, on_instruction eventually returns (the thread is back
\* in the run loop), and the call itself returns to the adapter.
C9_WakeupNotLost ==
    /\ (paused_ /\ apc = "clear") ~> (vm_pc \in {"run", "done"})
    /\ (apc = "clear" /\ acmd # "disconnect") ~> (apc = "idle")

\* A resume / step call was made while the thread was blocked in the wait,
\* and the thread has returned from the hook.
C9_Witness ==
    /\ vm_pc = "run"
    /\ hook_ret
    /\ ~paused_
    /\ apc = "idle"
    /\ cmd_at_pause \in {"resume", "step_into", "step_out"}

\* C10: after a disconnect request the execution thread halts and the join
\* of the disconnect handler completes (the handler reaches std::exit).
C10_DisconnectJoins ==
    disconnecting_ ~> (apc = "exited")

\* ------------------------------------------------- SpecSes
\* A control request served to its end (ss_debug.cpp:81-112).
SesCommand(cmd) ==
    /\ AdapterIdle
    /\ ControlCommand(cmd)
    /\ UNCHANGED <<vmVars, hookVars, dapVars>>
    /\ UNCHANGED nonDapVars

SesContinue ==
    SesCommand("resume")

SesNext ==
    SesCommand("step_over")

SesStepIn ==
    SesCommand("step_into")

SesStepOut ==
    SesCommand("step_out")

\* One instruction of the execution thread, which is parked in the hook
\* while paused_ (ss_debug.cpp:226-227); the callback's SendStoppedEvent
\* (dap_server.cpp:191) is recorded.
SesVmStep ==
    /\ vm_pc = "run"
    /\ ~paused_
    /\ HitsBelowCap
    /\ Len(stopped_events) < MaxEvents
    /\ RunHook
    /\ stopped_events' = IF hook_ret' THEN Append(stopped_events, StoppedReason(hook_event'))
                                      ELSE stopped_events
    /\ UNCHANGED <<vm_pc, cur_source, cmd_at_pause, cmd_line, cmd_depth, seen_line, apc,
                   acmd, mutex_, stop_on_entry_, vm_launched, vm_running_,
                   disconnecting_>>
    /\ UNCHANGED nonDapVars

SesNext_ ==
    \/ OnLaunch
    \/ OnSetBreakpoints
    \/ OnConfigurationDone
    \/ SesContinue
    \/ SesNext
    \/ SesStepIn
    \/ SesStepOut
    \/ SesVmStep

SpecSes == DapInit /\ [][SesNext_]_vars

\* ------------------------------------------------ properties under SpecSes
\* The reason of the last stopped event sent ("none" before the first).
LastStopped ==
    IF stopped_events = <<>> THEN "none" ELSE stopped_events[Len(stopped_events)]

\* `next` was issued, as the last control request, while the session was
\* paused by a breakpoint at line cmd_line and call depth cmd_depth, and in
\* this step the hook is called on a changed, known line other than cmd_line
\* at that same depth: the following source line is reached.
FollowingLineReached ==
    /\ cmd_at_pause = "step_over"
    /\ LastStopped = "breakpoint"
    /\ prev_line_' # prev_line_
    /\ prev_line_' # cmd_line
    /\ depth' = cmd_depth

MaxStack == 2
MaxFrames == 2
MaxClosures == 2

\* The VM copies values and never inspects them here: two values tell a
\* fresh read from a stale one.
Values == {0, 1}

\* VM::current_stack_base (of the running frame)
current_stack_base ==
    call_frames_[Len(call_frames_)].base

\* The closure of the running frame (0: none).
current_closure ==
    call_frames_[Len(call_frames_)].closure

\* VM::peek(0)
Top ==
    stack_[Len(stack_)]

\* The open upvalues that point at stack position p.
OpenAt(p) ==
    {u \in 1..Len(upvalues) : upvalues[u].open /\ upvalues[u].slot = p}

\* Mutant: an open upvalue is read from its own closed cell.
Deref_ClosedCell(u) ==
    upvalues[u].closed

\* *upvalue->location: the stack slot while open, the owned value once closed
Deref(u) ==
    IF upvalues[u].open THEN stack_[upvalues[u].slot].val ELSE upvalues[u].closed

\* VM::capture_upvalue(&stack_[p - 1]): the open upvalue already pointing at
\* the slot, else a fresh open one; gives <<upvalue table, upvalue>>.
capture_upvalue(table, p) ==
    LET found == {u \in 1..Len(table) : table[u].open /\ table[u].slot = p}
    IN  IF found # {}
        THEN <<table, CHOOSE u \in found : TRUE>>
        ELSE <<Append(table, [open |-> TRUE, slot |-> p, closed |-> 0,
                              var |-> IF stack_[p].var # 0 THEN stack_[p].var
                                                           ELSE Len(table) + 1]),
               Len(table) + 1>>

\* VM::close_upvalues(&stack_[last - 1]): every open upvalue at or above the
\* slot takes a copy of the slot's value and stops pointing into the stack.
close_upvalues(last) ==
    [u \in 1..Len(upvalues) |->
        IF upvalues[u].open /\ upvalues[u].slot >= last
        THEN [upvalues[u] EXCEPT !.open = FALSE,
                                 !.closed = stack_[upvalues[u].slot].val]
        ELSE upvalues[u]]

\* The upvalue descriptors {index, is_local} a prototype can declare.
Descriptors ==
    [is_local : BOOLEAN, index : 0..(MaxStack - 1)]

\* proto.upvalues of the prototypes compiled here: one captured variable.
DescriptorLists ==
    {<<d>> : d \in Descriptors}

\* The checks of OP_CLOSURE's loop that throw (ss_vm_opcodes.inl:437-451).
DescriptorValid(d) ==
    IF d.is_local
    THEN current_stack_base + d.index < Len(stack_)
    ELSE /\ current_closure # 0
         /\ d.index < Len(closures[current_closure])

RECURSIVE BindUpvalues_CopiesInherited(_, _, _)
\* Mutant: an inherited upvalue is copied into an upvalue object of the new
\* closure's own.
BindUpvalues_CopiesInherited(table, bound, descs) ==
    IF descs = <<>> THEN <<table, bound>>
    ELSE LET d == Head(descs)
         IN  IF d.is_local
             THEN LET c == capture_upvalue(table, current_stack_base + d.index + 1)
                  IN  BindUpvalues_CopiesInherited(c[1], Append(bound, c[2]), Tail(descs))
             ELSE BindUpvalues_CopiesInherited(
                      Append(table, table[closures[current_closure][d.index + 1]]),
                      Append(bound, Len(table) + 1), Tail(descs))

RECURSIVE BindUpvalues(_, _, _)
\* The loop of OP_CLOSURE (ss_vm_opcodes.inl:435-455): capture a local of
\* the running frame, or take over the enclosing closure's upvalue.
BindUpvalues(table, bound, descs) ==
    IF descs = <<>> THEN <<table, bound>>
    ELSE LET d == Head(descs)
         IN  IF d.is_local
             THEN LET c == capture_upvalue(table, current_stack_base + d.index + 1)
                  IN  BindUpvalues(c[1], Append(bound, c[2]), Tail(descs))
             ELSE BindUpvalues(table,
                               Append(bound, closures[current_closure][d.index + 1]),
                               Tail(descs))

\* vm.push(value): a new slot, not captured yet.
Push(val) ==
    Append(stack_, [val |-> val, var |-> 0])

\* The slots captured by the upvalues of table take their variable's
\* identity.
Tagged(stack, table) ==
    [p \in 1..Len(stack) |->
        IF \E u \in 1..Len(table) : table[u].open /\ table[u].slot = p
        THEN [stack[p] EXCEPT !.var =
                 table[CHOOSE u \in 1..Len(table) :
                          table[u].open /\ table[u].slot = p].var]
        ELSE stack[p]]

\* The value last written to each captured variable, the way it was written
\* and the closure that wrote it (0: the frame owning the slot), after a
\* write of val to var (0: a slot no closure has captured).
Written(var, val, via) ==
    IF var = 0 THEN latest
    ELSE [latest EXCEPT ![var] =
             [val |-> val, via |-> via,
              by |-> IF via = "upvalue" THEN current_closure ELSE 0]]

\* OP_CONSTANT (ss_vm_opcodes.inl:13-18)
OP_CONSTANT ==
    /\ Len(stack_) < MaxStack
    /\ \E v \in Values : stack_' = Push(v)
    /\ last_read' = NoRead
    /\ UNCHANGED <<call_frames_, upvalues, closures, latest>>

\* OP_POP (ss_vm_opcodes.inl:41-45).  The compiler ends the scope of a
\* captured local with OP_CLOSE_UPVALUE, so OP_POP is met only when no open
\* upvalue points at the top slot; a frame does not pop below its base.
OP_POP ==
    /\ Len(stack_) > current_stack_base
    /\ OpenAt(Len(stack_)) = {}
    /\ stack_' = SubSeq(stack_, 1, Len(stack_) - 1)
    /\ last_read' = NoRead
    /\ UNCHANGED <<call_frames_, upvalues, closures, latest>>

\* OP_SET_LOCAL (ss_vm_opcodes.inl:208-218)
OP_SET_LOCAL ==
    /\ Len(stack_) > current_stack_base
    /\ \E slot \in 0..(MaxStack - 1) :
          /\ current_stack_base + slot < Len(stack_)
          /\ LET p == current_stack_base + slot + 1
             IN  /\ stack_' = [stack_ EXCEPT ![p].val = Top.val]
                 /\ latest' = Written(stack_[p].var, Top.val, "slot")
    /\ last_read' = NoRead
    /\ UNCHANGED <<call_frames_, upvalues, closures>>

\* OP_CLOSURE (ss_vm_opcodes.inl:409-459).  The closure value pushed stands
\* as 0 on the stack (closures are called from the heap table); a variable
\* captured for the first time has the value of its slot as last written.
OP_CLOSURE ==
    /\ Len(stack_) < MaxStack
    /\ Len(closures) < MaxClosures
    /\ \E descs \in DescriptorLists :
          /\ \A i \in 1..Len(descs) : DescriptorValid(descs[i])
          /\ LET b == BindUpvalues(upvalues, <<>>, descs)
             IN  /\ upvalues' = b[1]
                 /\ closures' = Append(closures, b[2])
                 /\ stack_' = Tagged(Push(0), b[1])
                 /\ latest' = latest \o
                        [i \in 1..(Len(b[1]) - Len(upvalues)) |->
                            [val |-> stack_[b[1][Len(upvalues) + i].slot].val,
                             via |-> "slot", by |-> 0]]
    /\ last_read' = NoRead
    /\ UNCHANGED call_frames_

\* OP_GET_UPVALUE (ss_vm_opcodes.inl:465-478)
OP_GET_UPVALUE ==
    /\ Len(stack_) < MaxStack
    /\ current_closure # 0
    /\ \E slot \in 0..(MaxStack - 1) :
          /\ slot < Len(closures[current_closure])
          /\ LET u == closures[current_closure][slot + 1]
             IN  /\ stack_' = Push(Deref(u))
                 /\ last_read' = [valid |-> TRUE,
                                  val |-> Deref(u),
                                  written |-> latest[upvalues[u].var].val,
                                  via |-> latest[upvalues[u].var].via,
                                  open |-> upvalues[u].open,
                                  by |-> current_closure,
                                  writer |-> latest[upvalues[u].var].by]
    /\ UNCHANGED <<call_frames_, upvalues, closures, latest>>

\* OP_SET_UPVALUE (ss_vm_opcodes.inl:480-493): *location = peek(0)
OP_SET_UPVALUE ==
    /\ Len(stack_) > current_stack_base
    /\ current_closure # 0
    /\ \E slot \in 0..(MaxStack - 1) :
          /\ slot < Len(closures[current_closure])
          /\ LET u == closures[current_closure][slot + 1]
             IN  /\ IF upvalues[u].open
                    THEN /\ stack_' = [stack_ EXCEPT ![upvalues[u].slot].val = Top.val]
                         /\ UNCHANGED upvalues
                    ELSE /\ upvalues' = [upvalues EXCEPT ![u].closed = Top.val]
                         /\ UNCHANGED stack_
                 /\ latest' = Written(upvalues[u].var, Top.val, "upvalue")
    /\ last_read' = NoRead
    /\ UNCHANGED <<call_frames_, closures>>

\* Mutant: the top slot is popped with its upvalues left open.
OP_CLOSE_UPVALUE_PopOnly ==
    /\ Len(stack_) > current_stack_base
    /\ stack_' = SubSeq(stack_, 1, Len(stack_) - 1)
    /\ last_read' = NoRead
    /\ UNCHANGED <<call_frames_, upvalues, closures, latest>>

\* OP_CLOSE_UPVALUE (ss_vm_opcodes.inl:495-504)
OP_CLOSE_UPVALUE ==
    /\ Len(stack_) > current_stack_base
    /\ upvalues' = close_upvalues(Len(stack_))
    /\ stack_' = SubSeq(stack_, 1, Len(stack_) - 1)
    /\ last_read' = NoRead
    /\ UNCHANGED <<call_frames_, closures, latest>>

\* OP_CALL of a closure value (spec 4.D): a new frame whose region starts at
\* the stack top (the callee and argument slots are left out).
OP_CALL ==
    /\ Len(call_frames_) < MaxFrames
    /\ \E c \in 1..Len(closures) :
          call_frames_' = Append(call_frames_, [base |-> Len(stack_), closure |-> c])
    /\ last_read' = NoRead
    /\ UNCHANGED <<stack_, upvalues, closures, latest>>

\* OP_RETURN (spec 4.D, 4.E): pop the return value, close every upvalue
\* whose slot lies in the returning frame's region, pop the frame and its
\* locals, push the return value in the caller.
OP_RETURN ==
    /\ Len(call_frames_) > 1
    /\ Len(stack_) > current_stack_base
    /\ upvalues' = close_upvalues(current_stack_base + 1)
    /\ stack_' = Append(SubSeq(stack_, 1, current_stack_base),
                        [val |-> Top.val, var |-> 0])
    /\ call_frames_' = SubSeq(call_frames_, 1, Len(call_frames_) - 1)
    /\ last_read' = NoRead
    /\ UNCHANGED <<closures, latest>>

UpvInit ==
    /\ breakpoints_ = <<>>
    /\ line_to_bp_ = EmptyBag
    /\ next_breakpoint_id_ = 1
    /\ step_mode_ = "None"
    /\ step_frame_depth_ = 0
    /\ step_start_line_ = 0
    /\ skip_bp_on_resume_ = FALSE
    /\ paused_ = FALSE
    /\ pause_requested_ = FALSE
    /\ blocking_mode_ = FALSE
    /\ prev_line_ = 0
    /\ vm_pc = "run"
    /\ cur_line = 0
    /\ cur_source = ""
    /\ depth = 0
    /\ hook_ret = FALSE
    /\ hook_event = "None"
    /\ cmd_at_pause = "none"
    /\ cmd_line = 0
    /\ cmd_depth = 0
    /\ line_moved = FALSE
    /\ seen_line = 0
    /\ DapIdle
    /\ VmEmpty

nonUpvVars == <<ctlVars, vmVars, hookVars, histVars, dapVars, propVars, inhVars,
                evtVars, insVars, accVars, extVars>>

UpvNext ==
    \/ OP_CONSTANT /\ UNCHANGED nonUpvVars
    \/ OP_POP /\ UNCHANGED nonUpvVars
    \/ OP_SET_LOCAL /\ UNCHANGED nonUpvVars
    \/ OP_CLOSURE /\ UNCHANGED nonUpvVars
    \/ OP_GET_UPVALUE /\ UNCHANGED nonUpvVars
    \/ OP_SET_UPVALUE /\ UNCHANGED nonUpvVars
    \/ OP_CLOSE_UPVALUE /\ UNCHANGED nonUpvVars
    \/ OP_CALL /\ UNCHANGED nonUpvVars
    \/ OP_RETURN /\ UNCHANGED nonUpvVars

SpecUpv == UpvInit /\ [][UpvNext]_vars

\* C5: every read through a closure's upvalue, before and after the captured
\* variable's slot is closed, returns the value most recently written to
\* that variable, through its slot or through any upvalue referring to it.
C5_ReadSeesLatestWrite ==
    last_read.valid => last_read.val = last_read.written

\* A read through a closed upvalue that returns a value written through an
\* upvalue after the capture.
C5_Witness ==
    /\ last_read.valid
    /\ ~last_read.open
    /\ last_read.via = "upvalue"
    /\ last_read.val = 1
    /\ Len(call_frames_) > 1

\* C17: two closures that capture the same variable while its slot is live,
\* directly or by taking over the enclosing closure's upvalue, hold one and
\* the same upvalue, and a read through one of them gives the value last
\* written through the other, before and after the upvalue is closed.
C17_CapturesShareOneUpvalue ==
    /\ \A c1, c2 \in 1..Len(closures) :
          \A i \in 1..Len(closures[c1]), j \in 1..Len(closures[c2]) :
             upvalues[closures[c1][i]].var = upvalues[closures[c2][j]].var
                => closures[c1][i] = closures[c2][j]
    /\ (last_read.valid /\ last_read.via = "upvalue" /\ last_read.writer # last_read.by)
          => last_read.val = last_read.written

\* C17 witness: a read through one closure, after the shared upvalue was
\* closed, of a value written through another closure that holds the same
\* upvalue.
C17_Witness ==
    /\ last_read.valid
    /\ ~last_read.open
    /\ last_read.via = "upvalue"
    /\ last_read.writer # 0
    /\ last_read.writer # last_read.by
    /\ last_read.val = 1
    /\ closures[last_read.writer] = closures[last_read.by]

\* The stack positions that leave scope in a step: those of the returning
\* frame's region when a frame is popped, the top slot when one slot is
\* popped.
LeavingScope ==
    IF Len(call_frames_') < Len(call_frames_)
    THEN (current_stack_base + 1)..Len(stack_)
    ELSE IF Len(stack_') < Len(stack_) THEN {Len(stack_)} ELSE {}

\* The stack top left by a step, before a return value is pushed on it.
NewTop ==
    IF Len(call_frames_') < Len(call_frames_) THEN current_stack_base ELSE Len(stack_')

\* C18: when slots leave scope (CLOSE_UPVALUE on the top slot, a frame
\* return on the frame's region) every open upvalue on such a slot is closed
\* with the slot's value of that moment, and afterwards no open upvalue
\* refers to a slot at or above the new stack top.
C18_ClosedBeforeSlotGoes ==
    [][/\ \A u \in 1..Len(upvalues) :
             (upvalues[u].open /\ upvalues[u].slot \in LeavingScope) =>
                 /\ ~upvalues'[u].open
                 /\ upvalues'[u].closed = stack_[upvalues[u].slot].val
       /\ \A u \in 1..Len(upvalues') :
             upvalues'[u].open => upvalues'[u].slot <= NewTop]_vars

\* C18 witness: back at the top level, a closed upvalue holds the value 1,
\* written through the upvalue, of a slot that is gone.
C18_Witness ==
    /\ Len(call_frames_) = 1
    /\ \E u \in 1..Len(upvalues) :
          /\ ~upvalues[u].open
          /\ upvalues[u].slot > Len(stack_)
          /\ upvalues[u].closed = 1
          /\ latest[upvalues[u].var].via = "upvalue"

\* ======================================================================
\* SpecProp: property writes and reads on class and struct instances.  The
\* types declare stored properties only (no computed property, no observer),
\* holding plain values.
\* ======================================================================
\* Largest number of instance objects on the heap.
MaxObjects == 2

PropertyNames == {"x", "y"}
LocalNames == {"a", "b"}

\* The object header is not part of these sources: an instance of a class is
\* an ObjectType::Instance, an instance of a struct carries either that tag
\* or one of its own (ss_vm_opcodes.inl:283).
ObjectTypes(kind) ==
    IF kind = "class" THEN {"Instance"} ELSE {"Instance", "StructInstance"}

\* Mutant: the store of OP_SET_PROPERTY is lost.
StoreField_Dropped(obj, name, value) ==
    heap

\* inst->fields[name] = value (ss_vm_opcodes.inl:384)
StoreField(obj, name, value) ==
    [heap EXCEPT ![obj].fields[name] = value]

\* VM::get_property(obj, name) for a stored property
get_property(obj, name) ==
    heap[obj].fields[name]

\* The call of a type object (spec 4.E, initializer): a new instance, bound
\* to the local a.
Construct ==
    /\ prop_error = ""
    /\ Len(heap) < MaxObjects
    /\ \E kind \in {"class", "struct"} :
       \E type \in ObjectTypes(kind) :
       \E f \in [PropertyNames -> Values] :
          heap' = Append(heap, [kind |-> kind, type |-> type, fields |-> f])
    /\ locals' = [locals EXCEPT !["a"] = Len(heap) + 1]
    /\ linked' = "none"
    /\ put' = [n \in PropertyNames |-> -1]
    /\ wrote' = ""
    /\ last_get' = NoGet
    /\ UNCHANGED prop_error

\* OP_COPY_VALUE (spec 4.D): a deep copy of a struct instance; any other
\* value as it is.  Gives <<heap, value>>.
copy_value(obj) ==
    IF heap[obj].kind = "struct"
    THEN <<Append(heap, heap[obj]), Len(heap) + 1>>
    ELSE <<heap, obj>>

\* var b = a: OP_GET_LOCAL a, OP_COPY_VALUE for a struct-typed value (emitted
\* by the compiler, spec 4.D), then the store into b's slot.
Assign ==
    /\ prop_error = ""
    /\ locals["a"] # 0
    /\ LET c == copy_value(locals["a"])
       IN  /\ Len(c[1]) <= MaxObjects
           /\ heap' = c[1]
           /\ locals' = [locals EXCEPT !["b"] = c[2]]
    /\ linked' = heap[locals["a"]].kind
    /\ put' = [n \in PropertyNames |-> -1]
    /\ wrote' = ""
    /\ last_get' = NoGet
    /\ UNCHANGED prop_error

\* OP_SET_PROPERTY (ss_vm_opcodes.inl:290-403) with the object of local v
\* under the value on the stack.
OP_SET_PROPERTY ==
    /\ prop_error = ""
    /\ \E v \in LocalNames, name \in PropertyNames, value \in Values :
          /\ locals[v] # 0
          /\ wrote' = v
          /\ IF heap[locals[v]].type = "Instance"
             THEN /\ heap' = StoreField(locals[v], name, value)
                  /\ put' = IF linked = "none" THEN put
                            ELSE [put EXCEPT ![name] = value]
                  /\ UNCHANGED prop_error
             ELSE /\ prop_error' = "Property set only supported on instances or maps."
                  /\ UNCHANGED <<heap, put>>
    /\ last_get' = NoGet
    /\ UNCHANGED <<locals, linked>>

\* OP_GET_PROPERTY (ss_vm_opcodes.inl:225-287) on the object of local v.
OP_GET_PROPERTY ==
    /\ prop_error = ""
    /\ \E v \in LocalNames, name \in PropertyNames :
          /\ locals[v] # 0
          /\ last_get' = [valid |-> TRUE, var |-> v, name |-> name,
                          val |-> get_property(locals[v], name)]
    /\ wrote' = ""
    /\ UNCHANGED <<heap, locals, prop_error, linked, put>>

nonPropVars == <<ctlVars, vmVars, hookVars, histVars, dapVars, upvVars, inhVars,
                 evtVars, insVars, accVars, extVars>>

PropNext ==
    \/ Construct /\ UNCHANGED nonPropVars
    \/ Assign /\ UNCHANGED nonPropVars
    \/ OP_SET_PROPERTY /\ UNCHANGED nonPropVars
    \/ OP_GET_PROPERTY /\ UNCHANGED nonPropVars

SpecProp == UpvInit /\ [][PropNext]_vars

\* A SET_PROPERTY through b, on the value b was assigned from a.
WriteThroughB ==
    /\ linked # "none"
    /\ wrote' = "b"

\* C6: after a struct instance a is assigned to b, a property write through
\* b leaves every field of a unchanged; after the same assignment of a class
\* instance, a property write through b is observed by a read through a.
C6_StructCopiedClassShared ==
    /\ [][(WriteThroughB /\ linked = "struct")
             => heap'[locals["a"]].fields = heap[locals["a"]].fields]_vars
    /\ [][(WriteThroughB /\ linked = "class")
             => /\ prop_error' = ""
                /\ \E n \in PropertyNames : put'[n] # -1
                /\ \A n \in PropertyNames :
                      put'[n] # -1 => heap'[locals["a"]].fields[n] = put'[n]]_vars
    /\ []((last_get.valid /\ last_get.var = "a" /\ linked = "class"
              /\ put[last_get.name] # -1)
             => last_get.val = put[last_get.name])

\* Both halves in one run of the VM cannot be seen in one state; this is the
\* struct half: b, a copy of the struct instance a, has been written and
\* differs from a.
C6_Witness ==
    /\ linked = "struct"
    /\ wrote = "b"
    /\ prop_error = ""
    /\ heap[locals["b"]].fields["x"] # heap[locals["a"]].fields["x"]

\* ======================================================================
\* SpecInherit: class declarations and the override validation of
\* OP_INHERIT (spec 4.D, 4.E).
\* ======================================================================
\* Largest number of class objects.
MaxClasses == 3

MethodNames == {"f", "init"}

\* The function prototypes a class body can hold: `init` is the
\* initializer (ss_chunk.hpp:28-29).
MethodProtos ==
    {p \in [name : MethodNames, is_initializer : BOOLEAN, is_override : BOOLEAN] :
        p.is_initializer <=> p.name = "init"}

\* Mutant: the function object loses the prototype's override flag.
MakeFunction_NoOverride(proto) ==
    [name |-> proto.name,
     is_initializer |-> proto.is_initializer,
     is_override |-> FALSE]

\* The FunctionObject OP_CLOSURE allocates from a prototype
\* (ss_vm_opcodes.inl:421-430)
MakeFunction(proto) ==
    [name |-> proto.name,
     is_initializer |-> proto.is_initializer,
     is_override |-> proto.is_override]

\* Whether a method table has a method of that name.
HasMethod(methods, name) ==
    \E m \in methods : m.name = name

\* Override validation (spec 4.E) of the methods of a subclass against the
\* method table of its superclass, which holds the methods of the whole
\* chain since every link copies them down.
OverrideViolation(sub_methods, super_methods) ==
    \E m \in sub_methods :
        /\ ~m.is_initializer
        /\ m.is_override # HasMethod(super_methods, m.name)

\* OP_CLASS: a new class object; its declaration starts.
OP_CLASS ==
    /\ link_error = ""
    /\ defining = 0
    /\ Len(classes) < MaxClasses
    /\ classes' = Append(classes, [methods |-> {}, super |-> 0])
    /\ declared' = Append(declared, {})
    /\ defining' = Len(classes) + 1
    /\ UNCHANGED <<link_error, executed>>

\* OP_CLOSURE of a method body, then OP_METHOD: the closure on top of the
\* stack becomes a method of the class being declared.
OP_METHOD ==
    /\ link_error = ""
    /\ defining # 0
    /\ classes[defining].super = 0
    /\ \E proto \in MethodProtos :
          /\ ~HasMethod(classes[defining].methods, proto.name)
          /\ classes' = [classes EXCEPT ![defining].methods = @ \cup {MakeFunction(proto)}]
          /\ declared' = [declared EXCEPT ![defining] = @ \cup {proto}]
    /\ UNCHANGED <<defining, link_error, executed>>

\* OP_INHERIT: validate the subclass's methods, then copy down the
\* superclass's method descriptors the subclass does not define itself.
\* A violation aborts execution at this instruction (spec 7).
OP_INHERIT ==
    /\ link_error = ""
    /\ defining # 0
    /\ classes[defining].super = 0
    /\ \E super \in 1..Len(classes) :
          /\ super # defining
          /\ IF OverrideViolation(classes[defining].methods, classes[super].methods)
             THEN /\ link_error' = "override"
                  /\ classes' = [classes EXCEPT ![defining].super = super]
             ELSE /\ classes' = [classes EXCEPT
                        ![defining].super = super,
                        ![defining].methods = @ \cup
                            {m \in classes[super].methods :
                                ~HasMethod(classes[defining].methods, m.name)}]
                  /\ UNCHANGED link_error
    /\ UNCHANGED <<defining, declared, executed>>

\* The end of a class declaration: the class is bound to its name.
EndClass ==
    /\ link_error = ""
    /\ defining # 0
    /\ defining' = 0
    /\ UNCHANGED <<classes, link_error, declared, executed>>

\* A method call on an instance of a declared class.
CallMethod ==
    /\ link_error = ""
    /\ \E c \in 1..Len(classes) :
          /\ c # defining
          /\ classes[c].methods # {}
          /\ executed' = executed \cup {c}
    /\ UNCHANGED <<classes, defining, link_error, declared>>

nonInhVars == <<ctlVars, vmVars, hookVars, histVars, dapVars, upvVars, propVars,
                evtVars, insVars, accVars, extVars>>

InhNext ==
    \/ OP_CLASS /\ UNCHANGED nonInhVars
    \/ OP_METHOD /\ UNCHANGED nonInhVars
    \/ OP_INHERIT /\ UNCHANGED nonInhVars
    \/ EndClass /\ UNCHANGED nonInhVars
    \/ CallMethod /\ UNCHANGED nonInhVars

SpecInherit == UpvInit /\ [][InhNext]_vars

RECURSIVE ChainHas(_, _)
\* Whether class c or a class above it in the superclass chain declares a
\* method of that name.
ChainHas(c, name) ==
    IF c = 0 THEN FALSE
    ELSE \/ \E p \in declared[c] : p.name = name
         \/ ChainHas(classes[c].super, name)

\* A non-initializer method declared by class c is marked override while
\* the chain above super has no method of its name, or is not marked while
\* the chain has one.
DeclaredViolation(c, super) ==
    \E p \in declared[c] :
        /\ ~p.is_initializer
        /\ \/ p.is_override /\ ~ChainHas(super, p.name)
           \/ ~p.is_override /\ ChainHas(super, p.name)

\* The step links the class being declared to a superclass.
Linking ==
    /\ defining # 0
    /\ classes[defining].super = 0
    /\ classes'[defining].super # 0

\* C7: linking a subclass to its superclass fails exactly when some
\* non-initializer method of the subclass is marked override with no method
\* of that name in the superclass chain, or is unmarked with one;
\* initializers never cause the failure, and on failure no method of the
\* subclass is executed.
C7_OverrideValidation ==
    /\ [][Linking => ((link_error' # "")
                        <=> DeclaredViolation(defining, classes'[defining].super))]_vars
    /\ [](link_error # "" => defining \notin executed)

\* A link that failed on an unmarked method shadowing a method declared two
\* classes up the chain, in a subclass that also redeclares init.
C7_Witness ==
    /\ link_error # ""
    /\ defining = 3
    /\ classes[3].super = 2
    /\ classes[2].super = 1
    /\ \E p \in declared[3] : ~p.is_override /\ p.name = "f"
    /\ \E p \in declared[3] : p.is_initializer
    /\ \E p \in declared[1] : p.name = "f"
    /\ \A p \in declared[2] : p.name # "f"

\* ======================================================================
\* SpecTbl: the breakpoint table between the two threads.  The adapter
\* thread serves setBreakpoints in the steps of set_breakpoints_for_source;
\* the execution thread's hook reaches its table lookup and completes it in
\* a later step.  Neither path takes DebugController::mutex_
\* (ss_debug.cpp:161-176, 467-484).
\* ======================================================================
\* The adapter thread is inside set_breakpoints_for_source.
Mutating ==
    apc \in {"bp_remove", "bp_add"}

\* The execution thread is inside check_breakpoint or the hit-count loop.
LookingUp ==
    vm_pc = "lookup"

\* Dispatch -> OnSetBreakpoints (dap_server.cpp:54, 212-225): served in any
\* state of the execution thread.
SetBreakpointsBegin ==
    /\ AdapterIdle
    /\ apc' = "bp_remove"
    /\ UNCHANGED <<ctlVars, vmVars, hookVars, histVars, acmd, mutex_, stop_on_entry_,
                   entry_reported_, vm_launched, vm_running_, disconnecting_,
                   stopped_events>>
    /\ UNCHANGED nonDapVars

\* set_breakpoints_for_source, removal loop (ss_debug.cpp:473-478)
SetBreakpointsRemove ==
    /\ apc = "bp_remove"
    /\ LET kept == RemoveForSource([b |-> breakpoints_, m |-> line_to_bp_],
                                   DapSource, Len(breakpoints_))
       IN  /\ breakpoints_' = kept.b
           /\ line_to_bp_' = kept.m
    /\ apc' = "bp_add"
    /\ UNCHANGED <<next_breakpoint_id_, stepVars, flagVars, vmVars, hookVars, histVars,
                   acmd, mutex_, stop_on_entry_, entry_reported_, vm_launched,
                   vm_running_, disconnecting_, stopped_events>>
    /\ UNCHANGED nonDapVars

\* set_breakpoints_for_source, add loop (ss_debug.cpp:480-483), and the
\* response (dap_server.cpp:226-237)
SetBreakpointsAdd ==
    /\ apc = "bp_add"
    /\ \E lines \in LineLists :
          /\ next_breakpoint_id_ + Len(lines) - 1 <= MaxBpIds
          /\ LET tbl == AddLines([b |-> breakpoints_, m |-> line_to_bp_],
                                 DapSource, lines, next_breakpoint_id_)
             IN  /\ breakpoints_' = tbl.b
                 /\ line_to_bp_' = tbl.m
          /\ next_breakpoint_id_' = next_breakpoint_id_ + Len(lines)
    /\ apc' = "idle"
    /\ UNCHANGED <<stepVars, flagVars, vmVars, hookVars, histVars,
                   acmd, mutex_, stop_on_entry_, entry_reported_, vm_launched,
                   vm_running_, disconnecting_, stopped_events>>
    /\ UNCHANGED nonDapVars

\* on_instruction gets as far as check_breakpoint for this line
\* (ss_debug.cpp:124-165).
ReachesLookup(line) ==
    /\ line # 0
    /\ ~(line = prev_line_ /\ ~pause_requested_ /\ step_mode_ = "None")
    /\ ~PauseRequestApplies
    /\ ~SkipAfterLineCheck(line # prev_line_)

\* A control request of a stopped session, served to its end.
TblContinue ==
    paused_ /\ SesCommand("resume")

TblNext ==
    paused_ /\ SesCommand("step_over")

\* One instruction whose hook returns without a table lookup.
TblHookNoLookup ==
    /\ vm_pc = "run"
    /\ ~paused_
    /\ RunHook
    /\ ~ReachesLookup(cur_line')
    /\ UNCHANGED <<vm_pc, cur_source, cmd_at_pause, cmd_line, cmd_depth, seen_line, apc,
                   acmd, mutex_, stop_on_entry_, vm_launched, vm_running_,
                   disconnecting_, stopped_events>>
    /\ UNCHANGED nonDapVars

\* One instruction whose hook arrives at check_breakpoint.
TblHookEnter ==
    /\ vm_pc = "run"
    /\ ~paused_
    /\ HitsBelowCap
    /\ \E l \in Lines, d \in {depth - 1, depth, depth + 1} :
          /\ d \in 0..MaxDepth
          /\ ReachesLookup(l)
          /\ cur_line' = l
          /\ depth' = d
    /\ vm_pc' = "lookup"
    /\ UNCHANGED <<ctlVars, cur_source, hookVars, histVars, dapVars>>
    /\ UNCHANGED nonDapVars

\* check_breakpoint, the hit-count loop and the rest of the hook
\* (ss_debug.cpp:165-234) over the table as it is now.
TblHookLookup ==
    /\ LookingUp
    /\ on_instruction(cur_line, cur_source, depth)
    /\ line_moved' = (line_moved \/ (cmd_at_pause # "none" /\ cur_line # step_start_line_))
    /\ entry_reported_' = (entry_reported_ \/ (hook_ret' /\ stop_on_entry_
                                                /\ hook_event' = "StepCompleted"))
    /\ vm_pc' = "run"
    /\ UNCHANGED <<cur_line, cur_source, depth, cmd_at_pause, cmd_line, cmd_depth,
                   seen_line, apc, acmd, mutex_, stop_on_entry_, vm_launched,
                   vm_running_, disconnecting_, stopped_events>>
    /\ UNCHANGED nonDapVars

\* The lookup reads breakpoints_ and line_to_bp_ while the adapter thread
\* rewrites them: a data race on two standard containers, whose outcomes
\* include a read of released storage.
TblHookFault ==
    /\ LookingUp
    /\ Mutating
    /\ vm_pc' = "fault"
    /\ UNCHANGED <<ctlVars, cur_line, cur_source, depth, hookVars, histVars, dapVars>>
    /\ UNCHANGED nonDapVars

TblNext_ ==
    \/ OnLaunch
    \/ OnConfigurationDone
    \/ SetBreakpointsBegin
    \/ SetBreakpointsRemove
    \/ SetBreakpointsAdd
    \/ TblContinue
    \/ TblNext
    \/ TblHookNoLookup
    \/ TblHookEnter
    \/ TblHookLookup
    \/ TblHookFault

SpecTbl == DapInit /\ [][TblNext_]_vars

\* C11: a breakpoint-table mutation by the adapter thread never overlaps the
\* execution thread's lookup of the table in the instruction hook.
C11_MutationNeverOverlapsLookup ==
    ~(Mutating /\ LookingUp)

\* ======================================================================
\* SpecEvt: pauses and the stopped events sent for them.  The hook's pause
\* decision and its callback are separate steps of the execution thread;
\* the adapter thread serves its requests at any time.
\* ======================================================================
nonEvtVars == <<upvVars, propVars, inhVars, insVars, accVars, extVars>>

\* Mutant: the callback is invoked for breakpoint hits only.
CallbackInvoked_BreakpointsOnly ==
    hook_event = "BreakpointHit"

\* if (callback_) (ss_debug.cpp:216): OnLaunch has installed the callback
\* before the execution thread exists.
CallbackInvoked ==
    TRUE

\* A control request served to its end, in any state of the execution
\* thread.
EvtCommand(cmd) ==
    /\ AdapterIdle
    /\ ControlCommand(cmd)
    /\ UNCHANGED <<vmVars, hookVars, dapVars, evtVars, nonEvtVars>>

EvtContinue ==
    EvtCommand("resume")

EvtNext ==
    EvtCommand("step_over")

EvtStepIn ==
    EvtCommand("step_into")

EvtPause ==
    /\ AdapterIdle
    /\ pause
    /\ UNCHANGED <<vmVars, hookVars, dapVars, evtVars, nonEvtVars>>

\* What makes the hook pause in this step: the pending pause request
\* (ss_debug.cpp:155-159), else a breakpoint (165-176), else the step
\* condition (179-207).
PauseCause ==
    IF pause_requested_ THEN "request"
    ELSE IF hook_event' = "BreakpointHit" THEN "breakpoint"
    ELSE "step"

\* One instruction and its hook up to paused_ = true (ss_debug.cpp:122-214).
EvtDispatch ==
    /\ vm_pc = "run"
    /\ HitsBelowCap
    /\ Len(pauses) < MaxEvents
    /\ \E l \in 0..MaxLine, d \in {depth - 1, depth, depth + 1} :
          /\ d \in 0..MaxDepth
          /\ cur_line' = l
          /\ depth' = d
          /\ on_instruction(l, cur_source, d)
    /\ pauses' = IF hook_ret' THEN Append(pauses, hook_event') ELSE pauses
    /\ vm_pc' = IF hook_ret' THEN "callback" ELSE "run"
    /\ UNCHANGED <<cur_source, histVars, dapVars, nonEvtVars>>

EvtVmStep ==
    /\ EvtDispatch
    /\ UNCHANGED causes

\* The same step with the cause of the pause kept.
RsnVmStep ==
    /\ EvtDispatch
    /\ causes' = IF hook_ret' THEN Append(causes, PauseCause) ELSE causes

\* The callback (ss_debug.cpp:216-219, dap_server.cpp:176-193): one stopped
\* event through DapConnection::Send, which writes a whole message under
\* write_mutex_ (dap_connection.cpp:94-95).
EvtCallback ==
    /\ vm_pc = "callback"
    /\ stopped_events' = IF CallbackInvoked
                         THEN Append(stopped_events, StoppedReason(hook_event))
                         ELSE stopped_events
    /\ entry_reported_' = (entry_reported_ \/ (CallbackInvoked /\ stop_on_entry_
                                                /\ hook_event = "StepCompleted"))
    /\ vm_pc' = "waiting"
    /\ UNCHANGED <<ctlVars, cur_line, cur_source, depth, hookVars, histVars, apc, acmd,
                   mutex_, stop_on_entry_, vm_launched, vm_running_, disconnecting_,
                   evtVars, nonEvtVars>>

\* resume_cv_.wait returns once paused_ is clear (ss_debug.cpp:226-233).
EvtWaitDone ==
    /\ vm_pc = "waiting"
    /\ WaitPredicate
    /\ vm_pc' = "run"
    /\ UNCHANGED <<ctlVars, cur_line, cur_source, depth, hookVars, histVars, dapVars,
                   evtVars, nonEvtVars>>

\* The breakpoints of the session, set before the program starts.
EvtSetBreakpoints ==
    vm_pc = "off" /\ OnSetBreakpoints

EvtNext_ ==
    \/ OnLaunch
    \/ EvtSetBreakpoints
    \/ OnConfigurationDone
    \/ EvtContinue
    \/ EvtNext
    \/ EvtStepIn
    \/ EvtPause
    \/ EvtVmStep
    \/ EvtCallback
    \/ EvtWaitDone

SpecEvt == DapInit /\ [][EvtNext_]_vars

\* The session with the causes of its pauses recorded.
RsnNext ==
    \/ OnLaunch
    \/ EvtSetBreakpoints
    \/ OnConfigurationDone
    \/ EvtContinue
    \/ EvtNext
    \/ EvtStepIn
    \/ EvtPause
    \/ RsnVmStep
    \/ EvtCallback
    \/ EvtWaitDone

SpecRsn == DapInit /\ [][RsnNext]_vars

\* The reason of a stopped event belongs to the debug event of a pause.
ReasonOf(reason, event) ==
    IF event = "BreakpointHit" THEN reason = "breakpoint"
                               ELSE reason \in {"entry", "step"}

\* C12: every pause of the execution thread produces exactly one stopped
\* event, and the stopped events are sent in the order of the pauses.
C12_OneStoppedEventPerPause ==
    /\ Len(stopped_events) = IF vm_pc = "callback" THEN Len(pauses) - 1
                                                   ELSE Len(pauses)
    /\ \A i \in 1..Len(stopped_events) : ReasonOf(stopped_events[i], pauses[i])

\* Two pauses of different causes, both reported, with a command served
\* between the first pause and its callback.
C12_Witness ==
    /\ Len(pauses) = 2
    /\ pauses[1] # pauses[2]
    /\ Len(stopped_events) = 2
    /\ vm_pc = "waiting"


\* ---------------------------------------------------------------------------
\* Inspection of a paused VM: get_stack_trace and get_locals
\* (ss_debug.cpp:241-371) over the VM's call frames.
\*
\* In this part stack_ holds plain values and a call frame is the record the
\* property and call handlers build (ss_vm_opcodes.inl:266-275):
\* stack_base, return_address and chunk are the callee's first slot and the
\* CALLER's ip and body; function_name is the CALLEE's name.  Frames are
\* numbered 1..n here (index i of the code is i + 1); 0 stands for the
\* SIZE_MAX sentinel of the top level.
\* ---------------------------------------------------------------------------

\* Instructions per method body.
BodyLen == 3

\* The method bodies of the assembly, by name; body 1 is the top level.
FunctionNames == <<"<top-level>", "f", "g">>

Bodies == 1..Len(FunctionNames)

\* line_info of a body: every instruction of every body on a line of its own.
line_info(b, k) == (b - 1) * BodyLen + k + 1

\* debug_info->locals of a body; the last body carries no debug info.
debug_info(b) ==
    IF b = 1
    THEN <<[name |-> "a", slot_index |-> 0, scope_start_offset |-> 0, scope_end_offset |-> 0],
           [name |-> "b", slot_index |-> 1, scope_start_offset |-> 2, scope_end_offset |-> 0]>>
    ELSE IF b = 2
    THEN <<[name |-> "p", slot_index |-> 0, scope_start_offset |-> 1, scope_end_offset |-> 0],
           [name |-> "q", slot_index |-> 1, scope_start_offset |-> 1, scope_end_offset |-> BodyLen]>>
    ELSE <<>>

has_debug_info(b) == b \in {1, 2}

\* "local_" + std::to_string(slot - stack_base)
UnnamedLocalNames == <<"local_0", "local_1", "local_2", "local_3", "local_4">>

\* The named locals of body b in scope at ip, read at stack_base + slot_index
\* (ss_debug.cpp:353-370).
NamedLocals(b, ip, stack_base) ==
    LET InScope(l) ==
            /\ ip >= l.scope_start_offset
            /\ (l.scope_end_offset = 0 \/ ip < l.scope_end_offset)
            /\ stack_base + l.slot_index < Len(stack_)
        sel == SelectSeq(debug_info(b), InScope)
    IN  [k \in 1..Len(sel) |->
            [name |-> sel[k].name, slot |-> sel[k].slot_index,
             value |-> stack_[stack_base + sel[k].slot_index + 1]]]

\* The unnamed locals of the slots stack_base .. stack_end - 1
\* (ss_debug.cpp:332-351).
UnnamedLocals(stack_base, stack_end) ==
    [k \in 1..(stack_end - stack_base) |->
        [name |-> UnnamedLocalNames[k], slot |-> k - 1,
         value |-> IF stack_base + k <= Len(stack_) THEN stack_[stack_base + k] ELSE 0]]

\* get_locals(vm, frame_index) (ss_debug.cpp:300-371).
get_locals(frame_index) ==
    LET n == Len(call_frames_)
        top == n = 0 \/ frame_index = 0
        known == ~top /\ frame_index <= n
        stack_base == IF known THEN call_frames_[frame_index].stack_base ELSE 0
        current == top \/ frame_index = n
        body == IF current THEN body_
                ELSE IF known THEN call_frames_[frame_index].chunk ELSE 0
        ip == IF current THEN ip_
              ELSE IF known THEN call_frames_[frame_index].return_address ELSE 0
        stack_end == IF frame_index + 1 <= n
                     THEN call_frames_[frame_index + 1].stack_base
                     ELSE Len(stack_)
    IN  IF body = 0 \/ ~has_debug_info(body)
        THEN UnnamedLocals(stack_base, stack_end)
        ELSE NamedLocals(body, ip, stack_base)

\* The line a trace entry shows for instruction pointer ip of body b
\* (ss_debug.cpp:260-263, 283-285).
TraceLine(b, ip) ==
    IF ip > 0 /\ ip <= BodyLen THEN line_info(b, ip - 1) ELSE 0

\* The line of an older frame's entry (ss_debug.cpp:280-285).
OlderFrameLine(i) ==
    TraceLine(call_frames_[i].chunk, call_frames_[i].return_address)

\* get_stack_trace(vm) (ss_debug.cpp:241-298).
get_stack_trace ==
    LET n == Len(call_frames_)
        top == [function_name |-> IF n > 0 THEN call_frames_[n].function_name
                                  ELSE "<top-level>",
                frame_index |-> n,
                line |-> TraceLine(body_, ip_),
                locals |-> get_locals(n)]
        older(i) == [function_name |-> call_frames_[i].function_name,
                     frame_index |-> i,
                     line |-> OlderFrameLine(i),
                     locals |-> get_locals(i)]
    IN  [k \in 1..(IF n > 0 THEN n ELSE 1) |->
            IF k = 1 THEN top ELSE older(n - k + 1)]

\* The first slot of the innermost frame.
FrameBase ==
    IF call_frames_ = <<>> THEN 0 ELSE call_frames_[Len(call_frames_)].stack_base

\* An instruction that neither calls nor returns: it may push a value (one
\* of vals) or pop one of the frame's own slots.
InsStep(vals) ==
    /\ ip_ < BodyLen
    /\ ip_' = ip_ + 1
    /\ \/ \E v \in vals :
             /\ Len(stack_) < MaxStack
             /\ stack_' = Append(stack_, v)
       \/ /\ Len(stack_) > FrameBase
          /\ stack_' = SubSeq(stack_, 1, Len(stack_) - 1)
       \/ stack_' = stack_
    /\ trace' = <<>>
    /\ locals_out' = NoLocals
    /\ UNCHANGED <<body_, call_frames_>>

\* A call of the function on top of the stack (one of callees): the frame
\* is built as at ss_vm_opcodes.inl:266-275, with the caller's ip past the
\* call.
InsCall(callees) ==
    /\ ip_ < BodyLen
    /\ Len(call_frames_) < MaxFrames
    /\ Len(stack_) > FrameBase
    /\ \E callee \in callees :
          /\ call_frames_' = Append(call_frames_,
                 [stack_base |-> Len(stack_), return_address |-> ip_ + 1,
                  chunk |-> body_, function_name |-> FunctionNames[callee]])
          /\ body_' = callee
    /\ ip_' = 0
    /\ trace' = <<>>
    /\ locals_out' = NoLocals
    /\ UNCHANGED stack_

\* RETURN (spec 4.D): the frame and its slots go, the callee's slot takes the
\* return value (one of vals), control is back at the return address.
InsReturn(vals) ==
    /\ call_frames_ # <<>>
    /\ LET cf == call_frames_[Len(call_frames_)]
       IN  /\ ip_' = cf.return_address
           /\ body_' = cf.chunk
           /\ \E v \in vals :
                 stack_' = Append(SubSeq(stack_, 1, cf.stack_base - 1), v)
    /\ call_frames_' = SubSeq(call_frames_, 1, Len(call_frames_) - 1)
    /\ trace' = <<>>
    /\ locals_out' = NoLocals

\* The adapter asks for the stack trace of the paused VM.
GetStackTrace ==
    /\ trace = <<>>
    /\ trace' = get_stack_trace
    /\ UNCHANGED <<ip_, body_, stack_, call_frames_, locals_out>>

\* Mutant: get_locals reaches an older frame by unwinding the inner ones.
GetLocals_Unwinding ==
    /\ ~locals_out.valid
    /\ \E frame_index \in 0..Len(call_frames_) :
          /\ call_frames_ = <<>> <=> frame_index = 0
          /\ locals_out' = [valid |-> TRUE, frame |-> frame_index,
                            vars |-> get_locals(frame_index)]
          /\ call_frames_' = SubSeq(call_frames_, 1, frame_index)
    /\ UNCHANGED <<ip_, body_, stack_, trace>>

\* The adapter asks for the locals of one frame of the paused VM.
GetLocals ==
    /\ ~locals_out.valid
    /\ \E frame_index \in 0..Len(call_frames_) :
          /\ call_frames_ = <<>> <=> frame_index = 0
          /\ locals_out' = [valid |-> TRUE, frame |-> frame_index,
                            vars |-> get_locals(frame_index)]
    /\ UNCHANGED <<ip_, body_, stack_, call_frames_, trace>>

InsInit ==
    /\ breakpoints_ = <<>>
    /\ line_to_bp_ = EmptyBag
    /\ next_breakpoint_id_ = 1
    /\ step_mode_ = "None"
    /\ step_frame_depth_ = 0
    /\ step_start_line_ = 0
    /\ skip_bp_on_resume_ = FALSE
    /\ paused_ = FALSE
    /\ pause_requested_ = FALSE
    /\ blocking_mode_ = FALSE
    /\ prev_line_ = 0
    /\ vm_pc = "run"
    /\ cur_line = 0
    /\ cur_source = ""
    /\ depth = 0
    /\ hook_ret = FALSE
    /\ hook_event = "None"
    /\ cmd_at_pause = "none"
    /\ cmd_line = 0
    /\ cmd_depth = 0
    /\ line_moved = FALSE
    /\ seen_line = 0
    /\ DapIdle
    /\ VmNoFrames
    /\ call_frames_ = <<>>

nonInsVars == <<ctlVars, vmVars, hookVars, histVars, dapVars, upvalues, closures,
                latest, last_read, propVars, inhVars, evtVars, accVars, extVars>>

InsNext ==
    \/ InsStep(Values) /\ UNCHANGED nonInsVars
    \/ InsCall(Bodies \ {1}) /\ UNCHANGED nonInsVars
    \/ InsReturn(Values) /\ UNCHANGED nonInsVars
    \/ GetStackTrace /\ UNCHANGED nonInsVars
    \/ GetLocals /\ UNCHANGED nonInsVars

SpecTrace == InsInit /\ [][InsNext]_vars

\* The body frame i is executing and the instruction pointer it stands at:
\* the VM's own for the innermost frame, what the next inner frame saved for
\* an older one.
OwnBody(i) ==
    IF i = Len(call_frames_) THEN body_ ELSE call_frames_[i + 1].chunk

OwnIp(i) ==
    IF i = Len(call_frames_) THEN ip_ ELSE call_frames_[i + 1].return_address

\* C13: the stack trace has one entry per active call frame, innermost
\* first, and every entry pairs its frame's own function name with the line
\* of that frame's own body at that frame's own instruction pointer.
C13_TraceLineOfOwnFrame ==
    (trace # <<>> /\ call_frames_ # <<>>) =>
        /\ Len(trace) = Len(call_frames_)
        /\ \A k \in 1..Len(trace) :
              LET i == Len(call_frames_) - k + 1
              IN  /\ trace[k].frame_index = i
                  /\ trace[k].function_name = FunctionNames[OwnBody(i)]
                  /\ trace[k].line = TraceLine(OwnBody(i), OwnIp(i))

\* C14: for a frame whose body has debug info, get_locals gives exactly the
\* recorded locals in scope at the frame's ip, each with the value at the
\* frame's base plus its slot, where debug info, ip and base are all that
\* one frame's.
C14_LocalsOfOwnFrame ==
    LET i == locals_out.frame
        base == IF i = 0 THEN 0 ELSE call_frames_[i].stack_base
    IN  (locals_out.valid /\ has_debug_info(OwnBody(i))) =>
            locals_out.vars = NamedLocals(OwnBody(i), OwnIp(i), base)

\* The slots of frame i: from its base up to the base of the next inner
\* frame, or to the top of the stack for the innermost frame.
OwnSlots(i) ==
    LET base == IF i = 0 THEN 0 ELSE call_frames_[i].stack_base
        end == IF i < Len(call_frames_) THEN call_frames_[i + 1].stack_base
               ELSE Len(stack_)
    IN  (base + 1)..end

\* C31: for a frame whose body has no debug info, get_locals gives one entry
\* local_i per stack slot of the frame, i counting from 0 at the frame's
\* base, from the base up to the next inner frame's base or the top of the
\* stack, each with the slot's value.
C31_UnnamedLocalsPerSlot ==
    LET i == locals_out.frame
        slots == OwnSlots(i)
        base == IF i = 0 THEN 0 ELSE call_frames_[i].stack_base
    IN  (locals_out.valid /\ ~has_debug_info(OwnBody(i))) =>
            /\ Len(locals_out.vars) = Cardinality(slots)
            /\ \A s \in slots :
                  locals_out.vars[s - base] =
                      [name |-> UnnamedLocalNames[s - base], slot |-> s - base - 1,
                       value |-> stack_[s]]


\* ---------------------------------------------------------------------------
\* Breakpoint matching with paths in more than one spelling: breakpoints
\* added through add_breakpoint (ss_embed.cpp:928-937) and through
\* set_breakpoints_for_source, enabled and disabled, against the hook.
\* ---------------------------------------------------------------------------

\* Spellings of source paths: "/p/./a.ss" names the file "/p/a.ss".
SourcePaths == {"/p/a.ss", "/p/./a.ss", "/p/b.ss"}

\* std::filesystem::weakly_canonical (ss_debug.cpp:415-424)
normalize_path(p) ==
    IF p = "/p/./a.ss" THEN "/p/a.ss" ELSE p

\* ss_debug.cpp:407-413, with no default source file set
\* (ss_debug.hpp:155).
get_source_file(body_source) ==
    IF body_source # "" THEN normalize_path(body_source) ELSE ""

BpAdd ==
    /\ Len(breakpoints_) < MaxBps
    /\ \E l \in Lines, s \in {""} \cup SourcePaths : add_breakpoint(l, s)
    /\ UNCHANGED <<stepVars, flagVars, vmVars, hookVars, histVars, nonDbgVars>>

\* ss_debug.cpp:467-484: the path is normalised, then used for both loops.
BpSetForSource ==
    /\ \E s \in SourcePaths, ls \in LineLists :
          /\ set_breakpoints_for_source(normalize_path(s), ls)
          /\ Len(breakpoints_') <= MaxBps
          /\ next_breakpoint_id_' <= MaxBpIds + 1
    /\ UNCHANGED <<stepVars, flagVars, vmVars, hookVars, histVars, nonDbgVars>>

BpEnable ==
    /\ \E id \in 1..MaxBpIds, enabled \in BOOLEAN : enable_breakpoint(id, enabled)
    /\ UNCHANGED <<stepVars, flagVars, vmVars, hookVars, histVars, nonDbgVars>>

\* One instruction of a body with any source spelling (or none), and the
\* hook on it with the body's source as get_source_file gives it.
BpVmStep ==
    /\ vm_pc = "run"
    /\ ~paused_
    /\ HitsBelowCap
    /\ \E l \in 0..MaxLine, s \in {""} \cup SourcePaths :
          /\ cur_line' = l
          /\ cur_source' = get_source_file(s)
          /\ on_instruction(l, get_source_file(s), depth)
          /\ seen_line' = IF l = 0 THEN seen_line ELSE l
          /\ line_moved' = (line_moved \/ (l # 0 /\ cmd_at_pause # "none" /\ l # cmd_line))
    /\ UNCHANGED <<vm_pc, depth, cmd_at_pause, cmd_line, cmd_depth, nonDbgVars>>

BpResume ==
    paused_ /\ resume /\ UNCHANGED <<vmVars, hookVars, nonDbgVars>>

BpNext ==
    \/ BpAdd
    \/ BpSetForSource
    \/ BpEnable
    \/ BpVmStep
    \/ BpResume
    \/ DbgPause

SpecBp == DbgInit /\ [][BpNext]_vars

\* Some stored breakpoint is enabled, on this line, and has no source or a
\* source that, normalised, is the non-empty current source.
NormalisedMatch(line, source) ==
    \E i \in 1..Len(breakpoints_) :
        /\ breakpoints_[i].enabled
        /\ breakpoints_[i].line = line
        /\ \/ breakpoints_[i].source_file = ""
           \/ (source # "" /\ normalize_path(breakpoints_[i].source_file) = source)

\* The hook gets as far as its breakpoint check on this line: the line is
\* known, no pause request is pending and the one-shot skip flag does not
\* apply (ss_debug.cpp:124-165).
ChecksBreakpoints(line) ==
    /\ line # 0
    /\ ~pause_requested_
    /\ line # prev_line_

\* C15: when the hook checks breakpoints at (line, source) it pauses with a
\* breakpoint hit if and only if some breakpoint is enabled, on that line,
\* and has an empty source or a source equal after normalisation to the
\* non-empty current source.
C15_PauseIffEnabledMatch ==
    [][(BpVmStep /\ ChecksBreakpoints(cur_line')) =>
          ((paused_' /\ hook_event' = "BreakpointHit")
              <=> NormalisedMatch(cur_line', cur_source'))]_vars


\* ---------------------------------------------------------------------------
\* The pause/resume cycle seen from the VM: the VM of SpecTrace with the hook
\* called after every instruction, in blocking mode, and the inspection and
\* control calls made on it while it is parked in the hook.
\* ---------------------------------------------------------------------------

\* get_line(ip, body) (ss_debug.cpp:377-380)
get_line(ip, b) ==
    IF ip >= BodyLen THEN 0 ELSE line_info(b, ip)

\* The VM dispatches one instruction and is about to call the hook.  The
\* hook and the inspection calls copy stack values and never look into them,
\* and one function is enough for calls of any depth.
CycInstruction ==
    /\ vm_pc = "run"
    /\ HitsBelowCap
    /\ InsStep({0}) \/ InsCall({2}) \/ InsReturn({0})
    /\ vm_pc' = "hook"
    /\ UNCHANGED <<ctlVars, cur_line, cur_source, depth, hookVars, histVars, dapVars,
                   upvalues, closures, latest, last_read, propVars, inhVars, evtVars, accVars, extVars>>

\* on_instruction up to its wait (ss_debug.cpp:122-225).
CycHook ==
    /\ vm_pc = "hook"
    /\ LET line == get_line(ip_, body_)
       IN  on_instruction(line, "", Len(call_frames_))
    /\ vm_pc' = IF hook_ret' /\ blocking_mode_ THEN "waiting" ELSE "run"
    /\ UNCHANGED <<cur_line, cur_source, depth, histVars, nonDbgVars>>

\* resume_cv_.wait returns and on_instruction with it (ss_debug.cpp:226-234).
CycHookReturn ==
    /\ vm_pc = "waiting"
    /\ WaitPredicate
    /\ vm_pc' = "run"
    /\ UNCHANGED <<ctlVars, cur_line, cur_source, depth, hookVars, histVars, nonDbgVars>>

CycGetStackTrace ==
    paused_ /\ GetStackTrace /\ UNCHANGED nonInsVars

CycGetLocals ==
    paused_ /\ GetLocals /\ UNCHANGED nonInsVars

CycStepOver ==
    paused_ /\ step_over /\ UNCHANGED <<vmVars, hookVars, nonDbgVars>>

CycStepInto ==
    paused_ /\ step_into /\ UNCHANGED <<vmVars, hookVars, nonDbgVars>>

CycStepOut ==
    paused_ /\ step_out /\ UNCHANGED <<vmVars, hookVars, nonDbgVars>>

CycResume ==
    paused_ /\ resume /\ UNCHANGED <<vmVars, hookVars, nonDbgVars>>

\* A VM at the top level with a controller in blocking mode attached, a
\* pause requested for the first line (dap_server.cpp:168-173) and no
\* breakpoint or one on the script's second line.
CycInit ==
    /\ \/ /\ breakpoints_ = <<>>
          /\ line_to_bp_ = EmptyBag
          /\ next_breakpoint_id_ = 1
       \/ /\ breakpoints_ = <<[id |-> 1, source_file |-> "", line |-> 2,
                               enabled |-> TRUE, hit_count |-> 0]>>
          /\ line_to_bp_ = SetToBag({<<2, 1>>})
          /\ next_breakpoint_id_ = 2
    /\ step_mode_ = "None"
    /\ step_frame_depth_ = 0
    /\ step_start_line_ = 0
    /\ skip_bp_on_resume_ = FALSE
    /\ paused_ = FALSE
    /\ pause_requested_ = TRUE
    /\ blocking_mode_ = TRUE
    /\ prev_line_ = 0
    /\ vm_pc = "hook"
    /\ cur_line = 0
    /\ cur_source = ""
    /\ depth = 0
    /\ hook_ret = FALSE
    /\ hook_event = "None"
    /\ cmd_at_pause = "none"
    /\ cmd_line = 0
    /\ cmd_depth = 0
    /\ line_moved = FALSE
    /\ seen_line = 0
    /\ DapIdle
    /\ VmNoFrames
    /\ call_frames_ = <<>>

CycNext ==
    \/ CycInstruction
    \/ CycHook
    \/ CycHookReturn
    \/ CycGetStackTrace
    \/ CycGetLocals
    \/ CycStepOver
    \/ CycStepInto
    \/ CycStepOut
    \/ CycResume
    \/ DbgPause

SpecCyc == CycInit /\ [][CycNext]_vars

\* The VM's execution state: ip (in its body), operand stack, call frames.
ExecutionState ==
    <<ip_, body_, stack_, call_frames_>>

\* C16: from the entry of on_instruction to its return, through the pause
\* and whatever inspection and control calls are made meanwhile, the VM's
\* ip, operand stack and call-frame stack stay as they were.
C16_CycleLeavesVmState ==
    [][(vm_pc \in {"hook", "waiting"}) => ExecutionState' = ExecutionState]_vars

\* C16 witness: inside a call, the hook has returned from a pause during
\* which both inspection calls and a step command were made.
C16_Witness ==
    /\ vm_pc = "run"
    /\ hook_ret
    /\ call_frames_ # <<>>
    /\ trace # <<>>
    /\ locals_out.valid
    /\ cmd_at_pause = "step_into"



\* C26: in a session launched with stopOnEntry the first stopped event, and
\* no other, has the reason entry, whatever requests were served before and
\* after configurationDone.
C26_EntryIsFirstAndOnly ==
    stop_on_entry_ =>
       \A i \in 1..Len(stopped_events) : (stopped_events[i] = "entry") <=> (i = 1)

\* C27: in a session launched without stopOnEntry, where only a pause
\* request of the client sets pause_requested_, a pause taken for the
\* request is reported with the reason pause, and the reason step is
\* reported only for a pause taken by the step condition.
C27_PauseReasonForPauseRequest ==
    (vm_launched /\ ~stop_on_entry_) =>
       \A i \in 1..Len(stopped_events) :
          /\ causes[i] = "request" => stopped_events[i] = "pause"
          /\ stopped_events[i] = "step" => causes[i] = "step"

\* ---------------------------------------------------------------------------
\* Property instructions on an instance of a class with computed properties,
\* stored properties with observers, and methods
\* (ss_vm_opcodes.inl:224-403).  One class, one instance; the script is
\* top-level code that loads values and reads or writes a property.
\* ---------------------------------------------------------------------------

\* Largest operand stack of this part.
MaxOperands == 3

\* Values: null, integers, the instance, functions, bound methods; Absent
\* stands for "no entry" in inst->fields.
Null == [t |-> "null", v |-> 0]
Absent == [t |-> "absent", v |-> 0]
Inst == [t |-> "inst", v |-> 1]
IntVal(n) == [t |-> "int", v |-> n]
Fn(id) == [t |-> "fn", v |-> id]
Bound(id) == [t |-> "bound", v |-> id]

\* The functions of the class: getters of x and y, setter of x, method x,
\* observers of x; their names and parameter counts (self included).
FnNames == <<"get_x", "get_y", "set_x", "x", "willSet", "didSet">>
FnParams == <<1, 1, 2, 1, 2, 2>>

\* klass->computed_properties, klass->properties and the methods a class of
\* the script can declare.
ComputedLists ==
    LET cx == [name |-> "x", getter |-> Fn(1), setter |-> Null]
        cxs == [name |-> "x", getter |-> Fn(1), setter |-> Fn(3)]
        cy == [name |-> "y", getter |-> Fn(2), setter |-> Null]
    IN  {<<>>, <<cx>>, <<cxs>>, <<cy>>, <<cy, cx>>}

StoredLists ==
    {<<>>} \cup
    {<<[name |-> "x",
        will_set_observer |-> IF w THEN Fn(5) ELSE Null,
        did_set_observer |-> IF d THEN Fn(6) ELSE Null]>> : w \in BOOLEAN, d \in BOOLEAN}

\* No property instruction executed by the last step.
NoAcc ==
    [op |-> "", phase |-> "none", name |-> "", before |-> <<>>, ip |-> 0,
     result |-> Null, old_field |-> Null]

NoHandler ==
    [name |-> "", value |-> Null, obj_val |-> Null, will_set_observer |-> Null,
     did_set_observer |-> Null, old_value |-> Null]

\* Mutant: no computed property is ever found.
FindComputed_None(name) ==
    0

\* Mutant: a stored field of the name hides the computed property.
FindComputed_UnlessStored(name) ==
    LET found == {i \in 1..Len(klass.computed_properties) :
                     klass.computed_properties[i].name = name}
    IN  IF found = {} \/ fields[name] # Absent THEN 0
        ELSE CHOOSE i \in found : \A j \in found : i <= j

\* The loop over klass->computed_properties (ss_vm_opcodes.inl:233-234,
\* 309-310): the index of the first descriptor of that name, 0 if none.
FindComputed(name) ==
    LET found == {i \in 1..Len(klass.computed_properties) :
                     klass.computed_properties[i].name = name}
    IN  IF found = {} THEN 0
        ELSE CHOOSE i \in found : \A j \in found : i <= j

\* The loop over klass->properties (ss_vm_opcodes.inl:366-367).
FindStored(name) ==
    LET found == {i \in 1..Len(klass.properties) : klass.properties[i].name = name}
    IN  IF found = {} THEN 0
        ELSE CHOOSE i \in found : \A j \in found : i <= j

\* VM::get_property on an instance (spec 4.D): the stored field, else the
\* named method bound to the instance, else a failure (Absent).
instance_property(name) ==
    IF fields[name] # Absent THEN fields[name]
    ELSE IF name \in klass.methods THEN Bound(4)
    ELSE Absent

\* The class declaration and the construction of the instance
\* (DEFINE_COMPUTED_PROPERTY, DEFINE_PROPERTY_WITH_OBSERVERS, METHOD; spec
\* 4.D): stored properties start with their default value.
AccDeclare ==
    /\ vm_pc = "run"
    /\ klass = <<>>
    /\ \E cs \in ComputedLists, ps \in StoredLists, ms \in SUBSET {"x"} :
          /\ klass' = [computed_properties |-> cs, properties |-> ps, methods |-> ms]
          /\ fields' = [n \in PropertyNames |->
                           IF \E i \in 1..Len(ps) : ps[i].name = n THEN IntVal(0) ELSE Absent]
    /\ acc' = NoAcc
    /\ calls' = <<>>
    /\ handler' = NoHandler
    /\ UNCHANGED <<vm_pc, ip_, body_, stack_, call_frames_>>

\* Top-level code pushes the instance or an integer.
AccLoad ==
    /\ vm_pc = "run"
    /\ klass # <<>>
    /\ call_frames_ = <<>>
    /\ ip_ < BodyLen
    /\ Len(stack_) < MaxOperands
    /\ \E val \in {Inst} \cup {IntVal(n) : n \in Values} : stack_' = Append(stack_, val)
    /\ ip_' = ip_ + 1
    /\ acc' = NoAcc
    /\ calls' = <<>>
    /\ UNCHANGED <<vm_pc, body_, call_frames_, klass, fields, handler>>

\* OP_GET_PROPERTY (ss_vm_opcodes.inl:225-287)
AccGetProperty ==
    /\ vm_pc = "run"
    /\ klass # <<>>
    /\ call_frames_ = <<>>
    /\ ip_ < BodyLen
    /\ Len(stack_) >= 1
    /\ \E name \in PropertyNames :
          LET obj == stack_[Len(stack_)]
              popped == SubSeq(stack_, 1, Len(stack_) - 1)
              i == IF obj = Inst THEN FindComputed(name) ELSE 0
              here == [NoAcc EXCEPT !.op = "get", !.name = name, !.before = stack_,
                                    !.ip = ip_ + 1]
          IN  IF i # 0
              THEN LET getter == klass.computed_properties[i].getter
                   IN  IF getter.t # "fn" \/ FnParams[getter.v] # 1
                       THEN /\ vm_pc' = "error"
                            /\ stack_' = popped
                            /\ ip_' = ip_ + 1
                            /\ acc' = [here EXCEPT !.phase = "error"]
                            /\ UNCHANGED <<body_, call_frames_>>
                       ELSE /\ stack_' = popped \o <<getter, obj>>
                            /\ call_frames_' = Append(call_frames_,
                                  [stack_base |-> Len(popped) + 1,
                                   return_address |-> ip_ + 1,
                                   chunk |-> body_,
                                   function_name |-> FnNames[getter.v]])
                            /\ body_' = 1 + getter.v
                            /\ ip_' = 0
                            /\ acc' = [here EXCEPT !.phase = "getter"]
                            /\ UNCHANGED vm_pc
              ELSE LET got == IF obj = Inst THEN instance_property(name) ELSE Absent
                   IN  /\ ip_' = ip_ + 1
                       /\ UNCHANGED <<body_, call_frames_>>
                       /\ IF got = Absent
                          THEN /\ vm_pc' = "error"
                               /\ stack_' = popped
                               /\ acc' = [here EXCEPT !.phase = "error"]
                          ELSE /\ stack_' = Append(popped, got)
                               /\ acc' = [here EXCEPT !.phase = "direct"]
                               /\ UNCHANGED vm_pc
    /\ calls' = <<>>
    /\ UNCHANGED <<klass, fields, handler>>

\* The body of an accessor computes a value on top of its arguments.
AccBody ==
    /\ vm_pc = "run"
    /\ call_frames_ # <<>>
    /\ Len(stack_) < MaxOperands + 1
    /\ ip_ = 0
    /\ \E n \in Values : stack_' = Append(stack_, IntVal(n))
    /\ ip_' = 1
    /\ acc' = [acc EXCEPT !.phase = IF acc.phase = "getter" THEN "in_getter" ELSE @]
    /\ UNCHANGED <<vm_pc, body_, call_frames_, klass, fields, handler, calls>>

\* OP_RETURN (spec 4.D): pop the return value, pop the frame with its
\* arguments and the callee's slot, push the return value in the caller.
AccReturn ==
    /\ vm_pc = "run"
    /\ call_frames_ # <<>>
    /\ ip_ = 1
    /\ LET cf == call_frames_[Len(call_frames_)]
           val == stack_[Len(stack_)]
       IN  /\ stack_' = Append(SubSeq(stack_, 1, cf.stack_base - 1), val)
           /\ ip_' = cf.return_address
           /\ body_' = cf.chunk
           /\ acc' = [acc EXCEPT
                        !.phase = IF acc.phase = "in_getter" THEN "returned" ELSE @,
                        !.result = val]
    /\ call_frames_' = SubSeq(call_frames_, 1, Len(call_frames_) - 1)
    /\ UNCHANGED <<vm_pc, klass, fields, handler, calls>>

\* OP_SET_PROPERTY up to its first observer call or, for a computed
\* property, all of it (ss_vm_opcodes.inl:290-380).
AccSetProperty ==
    /\ vm_pc = "run"
    /\ klass # <<>>
    /\ call_frames_ = <<>>
    /\ ip_ < BodyLen
    /\ Len(stack_) >= 2
    /\ \E name \in PropertyNames :
          LET value == stack_[Len(stack_)]
              obj_val == stack_[Len(stack_) - 1]
              below == SubSeq(stack_, 1, Len(stack_) - 2)
              i == FindComputed(name)
              s == FindStored(name)
              here == [NoAcc EXCEPT !.op = "set", !.name = name, !.before = stack_,
                                    !.ip = ip_ + 1, !.old_field = fields[name]]
          IN  IF obj_val # Inst
              THEN /\ vm_pc' = "error"
                   /\ stack_' = Append(below, obj_val)
                   /\ ip_' = ip_ + 1
                   /\ acc' = [here EXCEPT !.phase = "error"]
                   /\ UNCHANGED <<body_, call_frames_, handler>>
              ELSE IF i # 0 /\ klass.computed_properties[i].setter = Null
              THEN /\ vm_pc' = "error"
                   /\ stack_' = Append(below, obj_val)
                   /\ ip_' = ip_ + 1
                   /\ acc' = [here EXCEPT !.phase = "error"]
                   /\ UNCHANGED <<body_, call_frames_, handler>>
              ELSE IF i # 0
              THEN LET setter == klass.computed_properties[i].setter
                   IN  /\ stack_' = below \o <<setter, obj_val, value>>
                       /\ call_frames_' = Append(call_frames_,
                             [stack_base |-> Len(below) + 1,
                              return_address |-> ip_ + 1,
                              chunk |-> body_,
                              function_name |-> FnNames[setter.v]])
                       /\ body_' = 1 + setter.v
                       /\ ip_' = 0
                       /\ acc' = [here EXCEPT !.phase = "setter"]
                       /\ UNCHANGED <<vm_pc, handler>>
              ELSE /\ handler' =
                        [name |-> name, value |-> value, obj_val |-> obj_val,
                         will_set_observer |->
                            IF s # 0 THEN klass.properties[s].will_set_observer ELSE Null,
                         did_set_observer |->
                            IF s # 0 THEN klass.properties[s].did_set_observer ELSE Null,
                         old_value |->
                            IF s # 0 /\ fields[name] # Absent THEN fields[name] ELSE Null]
                   /\ stack_' = below
                   /\ ip_' = ip_ + 1
                   /\ vm_pc' = "will_set"
                   /\ acc' = [here EXCEPT !.phase = "setting"]
                   /\ UNCHANGED <<body_, call_frames_>>
    /\ calls' = <<>>
    /\ UNCHANGED <<klass, fields>>

\* The call made by call_property_observer: the observer runs to its end on
\* (self, arg) and sees the field as it is at that moment.
ObserverCall(op, arg) ==
    [op |-> op, self |-> handler.obj_val, arg |-> arg, field |-> fields[handler.name]]

\* ss_vm_opcodes.inl:381-383
SetCallWillSet ==
    /\ vm_pc = "will_set"
    /\ calls' = IF handler.will_set_observer # Null
                THEN Append(calls, ObserverCall("willSet", handler.value))
                ELSE calls
    /\ vm_pc' = "write"
    /\ UNCHANGED <<ip_, body_, stack_, call_frames_, klass, fields, handler, acc>>

\* ss_vm_opcodes.inl:385
SetWrite ==
    /\ vm_pc = "write"
    /\ fields' = [fields EXCEPT ![handler.name] = handler.value]
    /\ calls' = Append(calls, [op |-> "write", self |-> handler.obj_val,
                               arg |-> handler.value, field |-> handler.value])
    /\ vm_pc' = "did_set"
    /\ UNCHANGED <<ip_, body_, stack_, call_frames_, klass, handler, acc>>

\* Mutant: didSet is handed the value just written.
SetCallDidSet_NewValue ==
    /\ vm_pc = "did_set"
    /\ calls' = IF handler.did_set_observer # Null
                THEN Append(calls, ObserverCall("didSet", handler.value))
                ELSE calls
    /\ vm_pc' = "push"
    /\ UNCHANGED <<ip_, body_, stack_, call_frames_, klass, fields, handler, acc>>

\* ss_vm_opcodes.inl:387-389
SetCallDidSet ==
    /\ vm_pc = "did_set"
    /\ calls' = IF handler.did_set_observer # Null
                THEN Append(calls, ObserverCall("didSet", handler.old_value))
                ELSE calls
    /\ vm_pc' = "push"
    /\ UNCHANGED <<ip_, body_, stack_, call_frames_, klass, fields, handler, acc>>

\* ss_vm_opcodes.inl:391
SetPush ==
    /\ vm_pc = "push"
    /\ stack_' = Append(stack_, handler.value)
    /\ acc' = [acc EXCEPT !.phase = "set_done"]
    /\ handler' = NoHandler
    /\ vm_pc' = "run"
    /\ UNCHANGED <<ip_, body_, call_frames_, klass, fields, calls>>

nonAccVars == <<ctlVars, cur_line, cur_source, depth, hookVars, histVars, dapVars,
                upvalues, closures, latest, last_read, propVars, inhVars, evtVars,
                trace, locals_out, extVars>>

AccNext ==
    \/ AccDeclare /\ UNCHANGED nonAccVars
    \/ AccLoad /\ UNCHANGED nonAccVars
    \/ AccGetProperty /\ UNCHANGED nonAccVars
    \/ AccBody /\ UNCHANGED nonAccVars
    \/ AccReturn /\ UNCHANGED nonAccVars
    \/ AccSetProperty /\ UNCHANGED nonAccVars
    \/ SetCallWillSet /\ UNCHANGED nonAccVars
    \/ SetWrite /\ UNCHANGED nonAccVars
    \/ SetCallDidSet /\ UNCHANGED nonAccVars
    \/ SetPush /\ UNCHANGED nonAccVars

SpecAcc == InsInit /\ [][AccNext]_vars

\* The receiver of the last property read and its place on the stack.
Receiver ==
    acc.before[Len(acc.before)]

\* The computed properties the class declares under a name.
DeclaredComputed(name) ==
    {cp \in {klass.computed_properties[k] : k \in 1..Len(klass.computed_properties)} :
        cp.name = name}

\* C19: GET_PROPERTY name on an instance whose class declares a computed
\* property of that name calls that getter with the instance as its only
\* argument, whatever stored field or method has the same name, and the
\* getter's return value stands in the receiver's place when execution
\* resumes after the instruction; the stored field or the bound method is
\* given only when no computed property has the name.
C19_ComputedGetterFirst ==
    klass # <<>> =>
      LET p == Len(acc.before)
          computed == DeclaredComputed(acc.name)
          its_getter == (CHOOSE cp \in computed : TRUE).getter
      IN  /\ acc.phase \in {"getter", "in_getter", "returned"} =>
                 (computed # {} /\ Receiver = Inst)
          /\ (acc.op = "get" /\ acc.phase \in {"direct", "error"}
                 /\ Receiver = Inst) => computed = {}
          /\ acc.phase = "getter" =>
                 /\ stack_ = SubSeq(acc.before, 1, p - 1)
                                \o <<its_getter, Inst>>
                 /\ call_frames_ =
                       <<[stack_base |-> p, return_address |-> acc.ip, chunk |-> 1,
                          function_name |-> FnNames[its_getter.v]]>>
                 /\ ip_ = 0
                 /\ body_ = 1 + its_getter.v
          /\ acc.phase = "returned" =>
                 /\ stack_ = [acc.before EXCEPT ![p] = acc.result]
                 /\ call_frames_ = <<>>
                 /\ ip_ = acc.ip
                 /\ body_ = 1
          /\ acc.phase = "direct" =>
                 /\ stack_ = [acc.before EXCEPT ![p] =
                                 IF fields[acc.name] # Absent THEN fields[acc.name]
                                 ELSE Bound(4)]
                 /\ call_frames_ = <<>>
                 /\ ip_ = acc.ip

\* C19 witness: the getter of x has returned 1 to the top level for an
\* instance that also has a stored field x (holding 0) and a method x.
C19_Witness ==
    /\ klass # <<>>
    /\ acc.phase = "returned"
    /\ acc.name = "x"
    /\ fields["x"] = IntVal(0)
    /\ "x" \in klass.methods
    /\ acc.result = IntVal(1)


\* The stored properties the class declares under a name.
DeclaredStored(name) ==
    {pr \in {klass.properties[k] : k \in 1..Len(klass.properties)} : pr.name = name}

\* s is an initial part of t.
IsPrefixOf(s, t) ==
    /\ Len(s) <= Len(t)
    /\ SubSeq(t, 1, Len(s)) = s

\* What an assignment of new to the property of self, holding old, has to
\* do, in order: the observers are those the class declares for the name.
ExpectedCalls(name, self, new, old) ==
    LET will == \E pr \in DeclaredStored(name) : pr.will_set_observer # Null
        did == \E pr \in DeclaredStored(name) : pr.did_set_observer # Null
    IN  (IF will
         THEN <<[op |-> "willSet", self |-> self, arg |-> new, field |-> old]>>
         ELSE <<>>)
        \o <<[op |-> "write", self |-> self, arg |-> new, field |-> new]>>
        \o (IF did
            THEN <<[op |-> "didSet", self |-> self, arg |-> old, field |-> new]>>
            ELSE <<>>)

\* C20: SET_PROPERTY on a stored property of an instance does, in this order
\* and each once: willSet(self, newValue) while the field holds the old
\* value, the write of the field, didSet(self, oldValue) with the value the
\* field had before the write; then the assigned value is on the stack in
\* place of the instance and the value.  An observer that is not declared is
\* not called.
C20_WillSetWriteDidSet ==
    (klass # <<>> /\ acc.op = "set") =>
      LET n == Len(acc.before)
          self == acc.before[n - 1]
          new == acc.before[n]
          expected == ExpectedCalls(acc.name, self, new, acc.old_field)
      IN  /\ (self = Inst /\ DeclaredComputed(acc.name) = {}) =>
                 acc.phase \in {"setting", "set_done"}
          /\ acc.phase = "setting" =>
                 /\ IsPrefixOf(calls, expected)
                 /\ vm_pc = "push" => calls = expected
          /\ acc.phase = "set_done" =>
                 /\ calls = expected
                 /\ fields[acc.name] = new
                 /\ stack_ = Append(SubSeq(acc.before, 1, n - 2), new)
                 /\ ip_ = acc.ip

\* C20 witness: an assignment of a value other than the old one to x, which
\* has both observers, is complete.
C20_Witness ==
    /\ klass # <<>>
    /\ acc.op = "set"
    /\ acc.phase = "set_done"
    /\ Len(calls) = 3
    /\ acc.old_field # acc.before[Len(acc.before)]


\* A step that executes SET_PROPERTY at the top level.
SetPropertyStep ==
    /\ klass # <<>>
    /\ vm_pc = "run"
    /\ call_frames_ = <<>>
    /\ acc' # acc
    /\ acc'.op = "set"

\* C21: SET_PROPERTY name on an instance whose class declares a computed
\* property of that name leaves every stored field of the instance as it
\* was: with a setter the handler makes the setter's frame on the arguments
\* (self, newValue) and continues at the setter's first instruction; without
\* a setter it fails and makes no frame.
C21_ComputedSetWritesNoField ==
    [][(SetPropertyStep /\ DeclaredComputed(acc'.name) # {}
           /\ stack_[Len(stack_) - 1] = Inst) =>
          LET n == Len(stack_)
              cp == CHOOSE d \in DeclaredComputed(acc'.name) : TRUE
          IN  /\ fields' = fields
              /\ calls' = <<>>
              /\ IF cp.setter = Null
                 THEN /\ vm_pc' = "error"
                      /\ call_frames_' = call_frames_
                 ELSE /\ vm_pc' = "run"
                      /\ stack_' = SubSeq(stack_, 1, n - 2)
                                      \o <<cp.setter, Inst, stack_[n]>>
                      /\ call_frames_' =
                            <<[stack_base |-> n - 1, return_address |-> ip_ + 1,
                               chunk |-> body_, function_name |-> FnNames[cp.setter.v]]>>
                      /\ ip_' = 0
                      /\ body_' = 1 + cp.setter.v]_vars

\* A write to the read-only computed property x of an instance that has a
\* stored field x has failed.
ReadOnlySetFailed ==
    /\ klass # <<>>
    /\ acc.op = "set"
    /\ acc.name = "x"
    /\ fields["x"] # Absent
    /\ DeclaredComputed("x") # {}
    /\ acc.phase = "error"
    /\ acc.before[Len(acc.before) - 1] = Inst

\* C21 witness: the setter of x has been entered with a value other than
\* the one in the stored field x of the instance.
C21_Witness ==
    /\ klass # <<>>
    /\ acc.op = "set"
    /\ acc.name = "x"
    /\ fields["x"] # Absent
    /\ acc.phase = "setter"
    /\ call_frames_ # <<>>
    /\ ip_ = 0
    /\ stack_[Len(stack_)] # fields["x"]


\* ---------------------------------------------------------------------------
\* Arithmetic instructions (ss_vm_opcodes.inl:59-144).  The script is one
\* chunk: constants, then one arithmetic instruction on the two topmost.
\* ---------------------------------------------------------------------------

\* Width of the integer of a Value; the program's is 64 (spec 3: Value).
IntBits == 3

MinInt == -(2^(IntBits - 1))
MaxInt == 2^(IntBits - 1) - 1

\* Two's-complement result of an integer operation at that width.
Wrap(x) ==
    ((x - MinInt) % (2^IntBits)) + MinInt

Abs(x) == IF x < 0 THEN -x ELSE x

RECURSIVE GCD(_, _)
GCD(x, y) == IF y = 0 THEN x ELSE GCD(y, x % y)

\* Values of the arithmetic script: integers; floats as fractions n/d in
\* lowest terms with d > 0, and d = 0 for the infinities (n = 1, -1) and
\* NaN (n = 0); booleans.
IntV(n) == [t |-> "int", n |-> n, d |-> 1]
BoolV(b) == [t |-> "bool", n |-> IF b THEN 1 ELSE 0, d |-> 1]

FloatV(n, d) ==
    IF d = 0
    THEN [t |-> "float", n |-> IF n > 0 THEN 1 ELSE IF n < 0 THEN -1 ELSE 0, d |-> 0]
    ELSE LET g == GCD(Abs(n), Abs(d))
             s == IF d < 0 THEN -1 ELSE 1
         IN  [t |-> "float", n |-> (s * n) \div g, d |-> (s * d) \div g]

\* Value::try_as<Float> (spec 4.A: integer promotes, float as it is,
\* anything else fails): NoFloat stands for the empty optional.
NoFloat == [t |-> "none", n |-> 0, d |-> 1]

try_as_Float(val) ==
    IF val.t = "int" THEN FloatV(val.n, 1)
    ELSE IF val.t = "float" THEN val
    ELSE NoFloat

\* Float +, -, *, / on finite operands (IEEE 754: x / 0 is an infinity,
\* 0 / 0 is NaN).
FAdd(x, y) == FloatV(x.n * y.d + y.n * x.d, x.d * y.d)
FSub(x, y) == FloatV(x.n * y.d - y.n * x.d, x.d * y.d)
FMul(x, y) == FloatV(x.n * y.n, x.d * y.d)
FDiv(x, y) == FloatV(x.n * y.d, x.d * y.n)

\* The constants a script can hold.
Operands ==
    {IntV(n) : n \in MinInt..MaxInt}
        \cup {FloatV(1, 2), FloatV(-3, 2), FloatV(2, 1), FloatV(0, 1)}
        \cup {BoolV(TRUE)}

ArithOps == {"ADD", "SUBTRACT", "MULTIPLY", "DIVIDE"}

Constant(val) == [op |-> "CONSTANT", val |-> val]
Instr(op) == [op |-> op, val |-> IntV(0)]

\* The chunks of the script: two or three constants, then the instruction.
Programs ==
    {<<Constant(a), Constant(b), Instr(op)>> :
        a \in Operands, b \in Operands, op \in ArithOps}
    \cup
    {<<Constant(IntV(1)), Constant(a), Constant(b), Instr(op)>> :
        a \in Operands, b \in Operands, op \in ArithOps}

\* VM::execute is given the chunk (spec 4.D).
ArithLoad ==
    /\ vm_pc = "run"
    /\ code_ = <<>>
    /\ code_' \in Programs
    /\ UNCHANGED <<vm_pc, ip_, stack_>>

\* The instruction at ip.
Fetch == code_[ip_ + 1]

CanFetch(op) ==
    /\ vm_pc = "run"
    /\ ip_ < Len(code_)
    /\ Fetch.op = op

\* The stack without its two topmost values, and those two.
PoppedTwo == SubSeq(stack_, 1, Len(stack_) - 2)
OperandB == stack_[Len(stack_)]
OperandA == stack_[Len(stack_) - 1]

\* throw std::runtime_error out of a handler that has popped both operands;
\* call_operator_overload finds no overload for operands that are no
\* objects (spec 4.H).
ThrowOperands ==
    /\ vm_pc' = "error"
    /\ stack_' = PoppedTwo

PushResult(val) ==
    /\ vm_pc' = vm_pc
    /\ stack_' = Append(PoppedTwo, val)

\* OP_CONSTANT (ss_vm_opcodes.inl:13-18)
ArithConstant ==
    /\ CanFetch("CONSTANT")
    /\ stack_' = Append(stack_, Fetch.val)
    /\ ip_' = ip_ + 1
    /\ UNCHANGED <<vm_pc, code_>>

\* OP_ADD (ss_vm_opcodes.inl:59-80)
OP_ADD ==
    /\ CanFetch("ADD")
    /\ ip_' = ip_ + 1
    /\ LET b == OperandB
           a == OperandA
       IN  IF a.t = "int" /\ b.t = "int"
           THEN PushResult(IntV(Wrap(a.n + b.n)))
           ELSE LET fa == try_as_Float(a)
                    fb == try_as_Float(b)
                IN  IF fa = NoFloat \/ fb = NoFloat
                    THEN ThrowOperands
                    ELSE PushResult(FAdd(fa, fb))
    /\ UNCHANGED code_

\* Mutant: the integer case is not told apart.
OP_SUBTRACT_AlwaysFloat ==
    /\ CanFetch("SUBTRACT")
    /\ ip_' = ip_ + 1
    /\ LET b == OperandB
           a == OperandA
           fa == try_as_Float(a)
           fb == try_as_Float(b)
       IN  IF fa = NoFloat \/ fb = NoFloat
           THEN ThrowOperands
           ELSE PushResult(FSub(fa, fb))
    /\ UNCHANGED code_

\* OP_SUBTRACT (ss_vm_opcodes.inl:82-103)
OP_SUBTRACT ==
    /\ CanFetch("SUBTRACT")
    /\ ip_' = ip_ + 1
    /\ LET b == OperandB
           a == OperandA
           fa == try_as_Float(a)
           fb == try_as_Float(b)
       IN  IF fa = NoFloat \/ fb = NoFloat
           THEN ThrowOperands
           ELSE IF a.t = "int" /\ b.t = "int"
           THEN PushResult(IntV(Wrap(a.n - b.n)))
           ELSE PushResult(FSub(fa, fb))
    /\ UNCHANGED code_

\* OP_MULTIPLY (ss_vm_opcodes.inl:105-126)
OP_MULTIPLY ==
    /\ CanFetch("MULTIPLY")
    /\ ip_' = ip_ + 1
    /\ LET b == OperandB
           a == OperandA
           fa == try_as_Float(a)
           fb == try_as_Float(b)
       IN  IF fa = NoFloat \/ fb = NoFloat
           THEN ThrowOperands
           ELSE IF a.t = "int" /\ b.t = "int"
           THEN PushResult(IntV(Wrap(a.n * b.n)))
           ELSE PushResult(FMul(fa, fb))
    /\ UNCHANGED code_

\* OP_DIVIDE (ss_vm_opcodes.inl:128-144)
OP_DIVIDE ==
    /\ CanFetch("DIVIDE")
    /\ ip_' = ip_ + 1
    /\ LET b == OperandB
           a == OperandA
           fa == try_as_Float(a)
           fb == try_as_Float(b)
       IN  IF fa = NoFloat \/ fb = NoFloat
           THEN ThrowOperands
           ELSE PushResult(FDiv(fa, fb))
    /\ UNCHANGED code_

nonArithVars == <<ctlVars, cur_line, cur_source, depth, hookVars, histVars, dapVars,
                  call_frames_, upvalues, closures, latest, last_read, propVars,
                  inhVars, evtVars, body_, trace, locals_out, accVars, cli, nat,
                  embVars>>

ArithNext ==
    \/ ArithLoad /\ UNCHANGED nonArithVars
    \/ ArithConstant /\ UNCHANGED nonArithVars
    \/ OP_ADD /\ UNCHANGED nonArithVars
    \/ OP_SUBTRACT /\ UNCHANGED nonArithVars
    \/ OP_MULTIPLY /\ UNCHANGED nonArithVars
    \/ OP_DIVIDE /\ UNCHANGED nonArithVars

SpecArith == InsInit /\ [][ArithNext]_vars

\* The arithmetic instruction of the chunk has been dispatched; its
\* operands, in the chunk's order.
Dispatched == code_ # <<>> /\ ip_ = Len(code_)
ArithOp == code_[Len(code_)].op
ConstA == code_[Len(code_) - 2].val
ConstB == code_[Len(code_) - 1].val
\* What the chunk pushed below the operands.
BelowOperands == [k \in 1..(Len(code_) - 3) |-> code_[k].val]

Numeric(val) == val.t \in {"int", "float"}

\* The integer operation at the width of the Value's integer.
IntResult(op, x, y) ==
    CASE op = "ADD" -> Wrap(x + y)
      [] op = "SUBTRACT" -> Wrap(x - y)
      [] op = "MULTIPLY" -> Wrap(x * y)

\* C22: ADD, SUBTRACT and MULTIPLY on two numeric operands take the two
\* operands off the stack and put one result in their place: for two
\* integers the integer with the value of the integer operation, for at
\* least one float a float.
C22_IntegerOrFloatResult ==
    (Dispatched /\ ArithOp \in {"ADD", "SUBTRACT", "MULTIPLY"}
        /\ Numeric(ConstA) /\ Numeric(ConstB)) =>
       /\ vm_pc = "run"
       /\ Len(stack_) = Len(BelowOperands) + 1
       /\ SubSeq(stack_, 1, Len(stack_) - 1) = BelowOperands
       /\ LET res == stack_[Len(stack_)]
          IN  IF ConstA.t = "int" /\ ConstB.t = "int"
              THEN res = IntV(IntResult(ArithOp, ConstA.n, ConstB.n))
              ELSE res.t = "float"

\* C22 witness: SUBTRACT of the integers 1 and 3 has left -2 on a value
\* that was below them.
C22_Witness ==
    /\ Dispatched
    /\ ArithOp = "SUBTRACT"
    /\ ConstA = IntV(1)
    /\ ConstB = IntV(3)
    /\ stack_ = <<IntV(1), IntV(-2)>>


\* The quotient of two integers truncated toward zero.
TruncDiv(x, y) ==
    LET q == Abs(x) \div Abs(y)
    IN  IF (x < 0) = (y < 0) THEN q ELSE -q

\* C23: DIVIDE on two integers, the divisor not zero, leaves the integer
\* quotient truncated toward zero; the result of DIVIDE on two numeric
\* operands is a float only if one of them is a float.
C23_IntegerDivideTruncates ==
    (Dispatched /\ ArithOp = "DIVIDE" /\ Numeric(ConstA) /\ Numeric(ConstB)
        /\ ~(ConstB = IntV(0) /\ ConstA.t = "int")) =>
       /\ vm_pc = "run"
       /\ Len(stack_) = Len(BelowOperands) + 1
       /\ LET res == stack_[Len(stack_)]
          IN  /\ (ConstA.t = "int" /\ ConstB.t = "int") =>
                     res = IntV(Wrap(TruncDiv(ConstA.n, ConstB.n)))
              /\ res.t = "float" => (ConstA.t = "float" \/ ConstB.t = "float")

\* C24: DIVIDE of an integer by the integer zero stops the VM with an error
\* at the instruction and leaves no result on the stack.
C24_IntegerDivideByZeroThrows ==
    (Dispatched /\ ArithOp = "DIVIDE" /\ ConstA.t = "int" /\ ConstB = IntV(0)) =>
       /\ vm_pc = "error"
       /\ stack_ = BelowOperands


\* ---------------------------------------------------------------------------
\* The compiler's command line (SwiftScriptCompiler.cpp:13-64)
\* ---------------------------------------------------------------------------

\* Longest argument list after the program's name.
MaxArgs == 3

\* An argument is the pair of its first nine characters, when they are
\* "-compile:", and the rest; any other argument is a pair with an empty
\* first part.
Arg(text) == <<"", text>>
CompileArg(type) == <<"-compile:", type>>

ArgTexts == {Arg("-in"), Arg("p.ssproject"), Arg(""), CompileArg("Release")}

RECURSIVE ArgLists(_)
ArgLists(n) ==
    IF n = 0 THEN {<<>>}
    ELSE LET shorter == ArgLists(n - 1)
         IN  shorter \cup {Append(s, a) : s \in {x \in shorter : Len(x) = n - 1},
                                          a \in ArgTexts}

\* What the front end does with the source: it returns, or the lexer, the
\* parser or the compiler throws (spec 4.C; ss_embed.cpp:284-310 catches
\* CompilerError and std::exception around the same calls).
FrontEndOutcomes == {"ok", "lex_error", "parse_error", "compile_error"}

\* The process is started: argv, whether the input and the output file can
\* be opened, and what the front end will do with the source.
CliStart ==
    /\ cli = <<>>
    /\ \E argv \in ArgLists(MaxArgs), in_opens \in BOOLEAN, out_opens \in BOOLEAN,
          front \in FrontEndOutcomes :
          cli' = [pc |-> "args", argv |-> argv, in_opens |-> in_opens,
                  out_opens |-> out_opens, front |-> front,
                  i |-> 1, buildType |-> "Debug", inputProject |-> "",
                  written |-> FALSE, status |-> "running"]

\* One turn of the argument loop (SwiftScriptCompiler.cpp:19-26); argc
\* counts the program's name, so argv[i] is cli.argv[i].
CliParseArg ==
    /\ cli # <<>>
    /\ cli.pc = "args"
    /\ cli.i <= Len(cli.argv)
    /\ LET arg == cli.argv[cli.i]
       IN  IF arg[1] = "-compile:"
           THEN cli' = [cli EXCEPT !.buildType = arg[2], !.i = @ + 1]
           ELSE IF arg = Arg("-in") /\ cli.i + 1 <= Len(cli.argv)
           THEN cli' = [cli EXCEPT
                          !.inputProject = cli.argv[cli.i + 1][1] \o cli.argv[cli.i + 1][2],
                          !.i = @ + 2]
           ELSE cli' = [cli EXCEPT !.i = @ + 1]

\* SwiftScriptCompiler.cpp:28-31
CliCheckInput ==
    /\ cli # <<>>
    /\ cli.pc = "args"
    /\ cli.i > Len(cli.argv)
    /\ IF cli.inputProject = ""
       THEN cli' = [cli EXCEPT !.pc = "done", !.status = "1"]
       ELSE cli' = [cli EXCEPT !.pc = "open"]

\* SwiftScriptCompiler.cpp:39-44
CliOpenInput ==
    /\ cli # <<>>
    /\ cli.pc = "open"
    /\ IF ~cli.in_opens
       THEN cli' = [cli EXCEPT !.pc = "done", !.status = "1"]
       ELSE cli' = [cli EXCEPT !.pc = "compile"]

\* SwiftScriptCompiler.cpp:47-52: no try block encloses the calls, so an
\* exception of the front end leaves main and ends the process through
\* std::terminate.
CliCompile ==
    /\ cli # <<>>
    /\ cli.pc = "compile"
    /\ IF cli.front = "ok"
       THEN cli' = [cli EXCEPT !.pc = "write"]
       ELSE cli' = [cli EXCEPT !.pc = "done", !.status = "abort"]

\* SwiftScriptCompiler.cpp:55-63
CliWrite ==
    /\ cli # <<>>
    /\ cli.pc = "write"
    /\ IF ~cli.out_opens
       THEN cli' = [cli EXCEPT !.pc = "done", !.status = "1"]
       ELSE cli' = [cli EXCEPT !.pc = "done", !.status = "0", !.written = TRUE]

nonCliVars == <<ctlVars, vmVars, hookVars, histVars, dapVars, upvVars, propVars, inhVars,
                evtVars, insVars, accVars, code_, nat, embVars>>

CliNext ==
    \/ CliStart /\ UNCHANGED nonCliVars
    \/ CliParseArg /\ UNCHANGED nonCliVars
    \/ CliCheckInput /\ UNCHANGED nonCliVars
    \/ CliOpenInput /\ UNCHANGED nonCliVars
    \/ CliCompile /\ UNCHANGED nonCliVars
    \/ CliWrite /\ UNCHANGED nonCliVars

SpecCli == InsInit /\ [][CliNext]_vars

\* The process has ended.
CliDone == cli # <<>> /\ cli.pc = "done"

\* An input was named and could be read.
InputUsable == cli.inputProject # "" /\ cli.in_opens

\* C25: the compiler ends with status 0, 1 or 2: 0 if it has written the
\* artifact, 1 if no input was named or the input cannot be read, 2 if the
\* input was read and lexing, parsing or compiling it fails.
C25_ExitStatus ==
    CliDone =>
       /\ cli.status \in {"0", "1", "2"}
       /\ cli.written => cli.status = "0"
       /\ cli.status = "0" => cli.written
       /\ ~InputUsable => cli.status = "1"
       /\ (InputUsable /\ cli.front # "ok") => cli.status = "2"

\* ---------------------------------------------------------------------------
\* Native wrappers of the embedding API (ss_embed.cpp:77-101, 717-864)
\* ---------------------------------------------------------------------------

\* Addresses at which the VM allocates NativeObject wrappers; the memory of
\* a destroyed wrapper can be given to a later one.
MaxWrappers == 2
\* The host's native pointers; 0 is nullptr.
NativePtrs == {1, 2}

Addresses == 1..MaxWrappers

\* The memory at an address that never held a wrapper.
NoWrapper ==
    [live |-> FALSE, native_ptr |-> 0, made_for |-> 0, prevent_release |-> FALSE,
     release_notify |-> FALSE]

\* ss_create_context (spec 6): no wrapper, nothing tracked, no callback.
NatCreate ==
    /\ nat = <<>>
    /\ nat' = [wrappers |-> [a \in Addresses |-> NoWrapper],
               engine_owned_objects |-> {},
               release_callback |-> FALSE,
               last |-> [op |-> "create", ptr |-> 0]]

\* SSContext_::track_engine_object (ss_embed.cpp:89-91)
track_engine_object(tracked, native_ptr, wrapper) ==
    tracked \cup {<<native_ptr, wrapper>>}

\* SSContext_::untrack_engine_object (ss_embed.cpp:93-101)
untrack_engine_object(tracked, native_ptr, wrapper) ==
    tracked \ {<<native_ptr, wrapper>>}

\* engine_owned_objects.erase(ptr): every entry of the key
\* (ss_embed.cpp:749, 823, 851).
EraseKey(tracked, native_ptr) ==
    {e \in tracked : e[1] # native_ptr}

\* ss_wrap_native (ss_embed.cpp:717-763) with a registered or unregistered
\* type name; allocate_object gives any address that holds no live wrapper.
NatWrap ==
    /\ nat # <<>>
    /\ \E a \in Addresses, ptr \in NativePtrs, engine \in BOOLEAN :
          /\ ~nat.wrappers[a].live
          /\ nat' = [nat EXCEPT
                 !.wrappers[a] =
                     [live |-> TRUE, native_ptr |-> ptr, made_for |-> ptr,
                      prevent_release |-> engine, release_notify |-> engine],
                 !.engine_owned_objects =
                     IF engine THEN track_engine_object(@, ptr, a) ELSE @,
                 !.last = [op |-> "wrap", ptr |-> 0]]

\* ss_set_ownership (ss_embed.cpp:765-791) on a live wrapper
NatSetOwnership ==
    /\ nat # <<>>
    /\ \E a \in Addresses, now_engine \in BOOLEAN :
          LET native_obj == nat.wrappers[a]
              was_engine == native_obj.prevent_release
          IN  /\ native_obj.live
              /\ nat' = [nat EXCEPT
                     !.wrappers[a].prevent_release = now_engine,
                     !.engine_owned_objects =
                         IF ~was_engine /\ now_engine
                         THEN track_engine_object(@, native_obj.native_ptr, a)
                         ELSE IF was_engine /\ ~now_engine
                         THEN untrack_engine_object(@, native_obj.native_ptr, a)
                         ELSE @,
                     !.last = [op |-> "set_ownership", ptr |-> 0]]

\* ss_set_release_callback (ss_embed.cpp:807-835); a tracked entry of a
\* destroyed wrapper makes the loop write the memory the wrapper had.
NatSetReleaseCallback ==
    /\ nat # <<>>
    /\ \E func \in BOOLEAN :
          nat' = [nat EXCEPT
                 !.release_callback = func,
                 !.wrappers = [a \in Addresses |->
                     IF \E e \in nat.engine_owned_objects : e[2] = a
                     THEN [nat.wrappers[a] EXCEPT !.release_notify = func]
                     ELSE nat.wrappers[a]],
                 !.last = [op |-> "set_release_callback", ptr |-> 0]]

\* The VM destroys a wrapper whose last reference is gone (spec 4.G): an
\* engine-owned wrapper's release_notify, if set, is run with the wrapper's
\* native pointer; the one ss_wrap_native and ss_set_release_callback
\* install erases every tracked entry of that pointer
\* (ss_embed.cpp:741-750, 817-824).
NatRelease ==
    /\ nat # <<>>
    /\ \E a \in Addresses :
          LET native_obj == nat.wrappers[a]
          IN  /\ native_obj.live
              /\ nat' = [nat EXCEPT
                     !.wrappers[a].live = FALSE,
                     !.engine_owned_objects =
                         IF native_obj.prevent_release /\ native_obj.release_notify
                         THEN EraseKey(@, native_obj.native_ptr)
                         ELSE @,
                     !.last = [op |-> "release", ptr |-> 0]]

\* ss_invalidate_native (ss_embed.cpp:837-853).  An entry left behind by a
\* destroyed wrapper is followed into the memory the wrapper had, which a
\* later wrapper may occupy.
NatInvalidate ==
    /\ nat # <<>>
    /\ \E ptr \in NativePtrs :
          nat' = [nat EXCEPT
                 !.wrappers = [a \in Addresses |->
                     IF /\ <<ptr, a>> \in nat.engine_owned_objects
                        /\ nat.wrappers[a].native_ptr = ptr
                     THEN [nat.wrappers[a] EXCEPT !.native_ptr = 0]
                     ELSE nat.wrappers[a]],
                 !.engine_owned_objects = EraseKey(@, ptr),
                 !.last = [op |-> "invalidate", ptr |-> ptr]]

\* ss_get_native_ptr (ss_embed.cpp:855-864) on the wrapper at an address
ss_get_native_ptr(a) ==
    nat.wrappers[a].native_ptr

nonNatVars == <<ctlVars, vmVars, hookVars, histVars, dapVars, upvVars, propVars, inhVars,
                evtVars, insVars, accVars, code_, cli, embVars>>

NatNext ==
    \/ NatCreate /\ UNCHANGED nonNatVars
    \/ NatWrap /\ UNCHANGED nonNatVars
    \/ NatSetOwnership /\ UNCHANGED nonNatVars
    \/ NatSetReleaseCallback /\ UNCHANGED nonNatVars
    \/ NatRelease /\ UNCHANGED nonNatVars
    \/ NatInvalidate /\ UNCHANGED nonNatVars

SpecNat == InsInit /\ [][NatNext]_vars

\* C28: when ss_invalidate_native(p) has returned, ss_get_native_ptr gives
\* nullptr for every live engine-owned wrapper that was made for p.
C28_InvalidatedReadsNull ==
    (nat # <<>> /\ nat.last.op = "invalidate") =>
       \A a \in Addresses :
          (/\ nat.wrappers[a].live
           /\ nat.wrappers[a].prevent_release
           /\ nat.wrappers[a].made_for = nat.last.ptr) => ss_get_native_ptr(a) = 0

\* ======================================================================
\* The breakpoint table through the whole of its interface: add_breakpoint,
\* remove_breakpoint, enable_breakpoint and clear_all_breakpoints as the
\* embedding API calls them (ss_embed.cpp:928-950),
\* set_breakpoints_for_source, and the hook counting hits, with several
\* breakpoints stored at once and source paths in more than one spelling.
\* ======================================================================
\* Largest number of breakpoints stored at once.
MaxStored == 2
\* Cap on next_breakpoint_id_ (a uint32_t counter in the code).
MaxIds == 3

\* The line lists set_breakpoints_for_source is called with.
MgrLineLists == UNION {[1..n -> Lines] : n \in 0..MaxStored}

\* The record of a call on the table.
MgrCall(op, id, line, source, lines, ret) ==
    [op |-> op, id |-> id, line |-> line, source |-> source, lines |-> lines,
     ret |-> ret]

\* ss_debug.cpp:72-75
clear_all_breakpoints ==
    /\ breakpoints_' = <<>>
    /\ line_to_bp_' = EmptyBag
    /\ UNCHANGED next_breakpoint_id_

\* What the controller's other members and the VM keep during a call on
\* the table.
mgrKept == <<stepVars, flagVars, vmVars, hookVars, histVars>>

nonMgrVars == <<dapVars, upvVars, propVars, inhVars, evtVars, insVars, accVars,
                code_, cli, nat, api, reg, wire, insp>>

\* ss_debug_add_breakpoint (ss_embed.cpp:928-937): line > 0
MgrAdd ==
    /\ Len(breakpoints_) < MaxStored
    /\ next_breakpoint_id_ <= MaxIds
    /\ \E l \in Lines, s \in SourcePaths :
          /\ add_breakpoint(l, s)
          /\ mgr' = MgrCall("add", 0, 0, "", <<>>, TRUE)
    /\ UNCHANGED mgrKept

\* ss_debug_remove_breakpoint (ss_embed.cpp:939-945)
MgrRemove ==
    /\ \E id \in 1..next_breakpoint_id_ :
          LET tbl == remove_breakpoint([b |-> breakpoints_, m |-> line_to_bp_], id)
          IN  /\ breakpoints_' = tbl.b
              /\ line_to_bp_' = tbl.m
              /\ mgr' = MgrCall("remove", id, 0, "", <<>>,
                                Len(tbl.b) # Len(breakpoints_))
    /\ UNCHANGED <<next_breakpoint_id_, mgrKept>>

MgrEnable ==
    /\ \E id \in 1..next_breakpoint_id_, enabled \in BOOLEAN :
          /\ enable_breakpoint(id, enabled)
          /\ mgr' = MgrCall("enable", 0, 0, "", <<>>, TRUE)
    /\ UNCHANGED mgrKept

\* ss_debug_clear_breakpoints (ss_embed.cpp:947-950)
MgrClear ==
    /\ clear_all_breakpoints
    /\ mgr' = MgrCall("clear", 0, 0, "", <<>>, TRUE)
    /\ UNCHANGED mgrKept

\* set_breakpoints_for_source (ss_debug.cpp:467-484) with a path in any
\* spelling: the path is normalised, then used for both loops.
MgrSetForSource ==
    /\ \E s \in SourcePaths, ls \in MgrLineLists :
          /\ set_breakpoints_for_source(normalize_path(s), ls)
          /\ Len(breakpoints_') <= MaxStored
          /\ next_breakpoint_id_' <= MaxIds + 1
          /\ mgr' = MgrCall("set", 0, 0, s, ls, TRUE)
    /\ UNCHANGED mgrKept

\* The VM dispatches an instruction of a body with some source at the top
\* level and calls the hook on it.
MgrHook ==
    /\ ~paused_
    /\ HitsBelowCap
    /\ \E l \in Lines, s \in SourcePaths :
          /\ on_instruction(l, get_source_file(s), 0)
          /\ mgr' = MgrCall("hook", 0, l, get_source_file(s), <<>>, hook_ret')
    /\ UNCHANGED <<vmVars, histVars>>

MgrResume ==
    /\ paused_
    /\ resume
    /\ mgr' = MgrCall("resume", 0, 0, "", <<>>, TRUE)
    /\ UNCHANGED <<vmVars, hookVars>>

MgrNext ==
    \/ MgrAdd /\ UNCHANGED nonMgrVars
    \/ MgrRemove /\ UNCHANGED nonMgrVars
    \/ MgrEnable /\ UNCHANGED nonMgrVars
    \/ MgrClear /\ UNCHANGED nonMgrVars
    \/ MgrSetForSource /\ UNCHANGED nonMgrVars
    \/ MgrHook /\ UNCHANGED nonMgrVars
    \/ MgrResume /\ UNCHANGED nonMgrVars

SpecMgr == DbgInit /\ [][MgrNext]_vars

\* ---------------------------------------------------------------------------
\* The table and its line index alone: the five calls that restructure
\* them, on a controller as constructed or on one whose first breakpoint has
\* been hit once and resumed from.
\* ---------------------------------------------------------------------------

IdxSources == {"/p/a.ss", "/p/b.ss"}

\* The lines of the two files that breakpoints are put on, and the line
\* lists set_breakpoints_for_source is called with.
IdxLines == {1, 2}

IdxLineLists == {<<>>, <<1>>, <<2>>, <<1, 2>>, <<2, 2>>}

\* The controller after add_breakpoint(1, "/p/a.ss"), a hook call on line 1
\* of "/p/a.ss" and resume.
IdxAfterHit ==
    /\ breakpoints_ = <<[id |-> 1, source_file |-> "/p/a.ss", line |-> 1,
                         enabled |-> TRUE, hit_count |-> 1]>>
    /\ line_to_bp_ = SetToBag({<<1, 1>>})
    /\ next_breakpoint_id_ = 2
    /\ step_start_line_ = 1
    /\ skip_bp_on_resume_ = TRUE
    /\ prev_line_ = 1
    /\ hook_ret = TRUE
    /\ hook_event = "BreakpointHit"

IdxFresh ==
    /\ breakpoints_ = <<>>
    /\ line_to_bp_ = EmptyBag
    /\ next_breakpoint_id_ = 1
    /\ step_start_line_ = 0
    /\ skip_bp_on_resume_ = FALSE
    /\ prev_line_ = 0
    /\ hook_ret = FALSE
    /\ hook_event = "None"

IdxInit ==
    /\ IdxFresh \/ IdxAfterHit
    /\ step_mode_ = "None"
    /\ step_frame_depth_ = 0
    /\ paused_ = FALSE
    /\ pause_requested_ = FALSE
    /\ blocking_mode_ = FALSE
    /\ vm_pc = "run"
    /\ cur_line = 0
    /\ cur_source = ""
    /\ depth = 0
    /\ cmd_at_pause = "none"
    /\ cmd_line = 0
    /\ cmd_depth = 0
    /\ line_moved = FALSE
    /\ seen_line = 0
    /\ DapIdle
    /\ VmEmpty

IdxAdd ==
    /\ Len(breakpoints_) < MaxStored
    /\ next_breakpoint_id_ <= MaxIds
    /\ \E l \in IdxLines, s \in IdxSources : add_breakpoint(l, s)
    /\ mgr' = MgrCall("add", 0, 0, "", <<>>, TRUE)
    /\ UNCHANGED mgrKept

IdxRemove ==
    /\ \E id \in 1..next_breakpoint_id_ :
          LET tbl == remove_breakpoint([b |-> breakpoints_, m |-> line_to_bp_], id)
          IN  /\ breakpoints_' = tbl.b
              /\ line_to_bp_' = tbl.m
              /\ mgr' = MgrCall("remove", id, 0, "", <<>>,
                                Len(tbl.b) # Len(breakpoints_))
    /\ UNCHANGED <<next_breakpoint_id_, mgrKept>>

IdxEnable ==
    /\ \E id \in 1..next_breakpoint_id_, enabled \in BOOLEAN :
          enable_breakpoint(id, enabled)
    /\ mgr' = MgrCall("enable", 0, 0, "", <<>>, TRUE)
    /\ UNCHANGED mgrKept

IdxClear ==
    /\ clear_all_breakpoints
    /\ mgr' = MgrCall("clear", 0, 0, "", <<>>, TRUE)
    /\ UNCHANGED mgrKept

IdxSetForSource ==
    /\ \E s \in IdxSources, ls \in IdxLineLists :
          /\ set_breakpoints_for_source(normalize_path(s), ls)
          /\ Len(breakpoints_') <= MaxStored
          /\ next_breakpoint_id_' <= MaxIds + 1
    /\ mgr' = MgrCall("set", 0, 0, "", <<>>, TRUE)
    /\ UNCHANGED mgrKept

IdxNext ==
    \/ IdxAdd /\ UNCHANGED nonMgrVars
    \/ IdxRemove /\ UNCHANGED nonMgrVars
    \/ IdxEnable /\ UNCHANGED nonMgrVars
    \/ IdxClear /\ UNCHANGED nonMgrVars
    \/ IdxSetForSource /\ UNCHANGED nonMgrVars

SpecIdx == IdxInit /\ [][IdxNext]_vars

\* The stored breakpoints as a set, and their ids.
Stored == {breakpoints_[i] : i \in 1..Len(breakpoints_)}

StoredIds == {b.id : b \in Stored}

\* The same file under any spelling of its path.
SameFile(a, b) ==
    normalize_path(a) = normalize_path(b)

\* C32: after set_breakpoints_for_source(S, lines) the breakpoints of S are
\* one enabled breakpoint with hit_count 0 per element of lines, no
\* breakpoint stored for S before the call is left, and the breakpoints of
\* other sources are the same as before.
C32_SetReplacesSourceOnly ==
    [][(mgr' # <<>> /\ mgr'.op = "set") =>
          LET S == mgr'.source
              lines == mgr'.lines
              OfS(b) == SameFile(b.source_file, S)
              now == SelectSeq(breakpoints_', OfS)
          IN  /\ Len(now) = Len(lines)
              /\ \A l \in Lines :
                    Cardinality({k \in 1..Len(now) : now[k].line = l})
                        = Cardinality({k \in 1..Len(lines) : lines[k] = l})
              /\ \A k \in 1..Len(now) : now[k].enabled /\ now[k].hit_count = 0
              /\ \A b \in Stored : OfS(b) => b.id \notin StoredIds'
              /\ {b \in Stored : ~OfS(b)} = {b \in Stored' : ~OfS(b)}]_vars

\* C33: remove_breakpoint(id) returns true and removes the breakpoint with
\* that id, and no other, when there is one; it returns false and changes
\* nothing when there is none.
C33_RemoveExactlyThatId ==
    [][(mgr' # <<>> /\ mgr'.op = "remove") =>
          IF mgr'.id \in StoredIds
          THEN /\ mgr'.ret
               /\ Stored' = {b \in Stored : b.id # mgr'.id}
               /\ Len(breakpoints_') = Len(breakpoints_) - 1
          ELSE /\ ~mgr'.ret
               /\ UNCHANGED bpVars]_vars

\* C33 witness: the second of two stored breakpoints has been removed, the
\* first, which was hit once, is still stored.
C33_Witness ==
    /\ mgr # <<>>
    /\ mgr.op = "remove"
    /\ mgr.ret
    /\ mgr.id = 2
    /\ Len(breakpoints_) = 1
    /\ breakpoints_[1].id = 1
    /\ breakpoints_[1].hit_count > 0

\* An id that was removed before has been asked for again.
RemovedTwice ==
    /\ mgr # <<>>
    /\ mgr.op = "remove"
    /\ ~mgr.ret
    /\ mgr.id < next_breakpoint_id_
    /\ breakpoints_ # <<>>

\* C34: the line index holds one entry per stored breakpoint, and every
\* entry (line -> i) has i within the stored breakpoints and
\* breakpoints[i].line = line.
C34_LineIndexMatchesTable ==
    /\ BagCardinality(line_to_bp_) = Len(breakpoints_)
    /\ \A i \in 1..Len(breakpoints_) :
          CopiesIn(<<breakpoints_[i].line, i>>, line_to_bp_) = 1
    /\ \A e \in BagToSet(line_to_bp_) :
          /\ e[2] \in 1..Len(breakpoints_)
          /\ breakpoints_[e[2]].line = e[1]

\* C34 witness: a breakpoint that was the last of the table has been moved
\* into the place of a removed one on another line.
C34_Witness ==
    /\ mgr # <<>>
    /\ mgr.op = "remove"
    /\ mgr.ret
    /\ Len(breakpoints_) = 1
    /\ breakpoints_[1].id > mgr.id
    /\ breakpoints_[1].line = 2

\* C35: a BreakpointHit pause at (line, source) adds one to the hit_count of
\* every enabled breakpoint that matches the line and the source, and the
\* hit_count of a breakpoint changes in no other way.
C35_HitCountPerMatch ==
    [][LET hit == /\ mgr'.op = "hook"
                  /\ ~paused_ /\ paused_'
                  /\ hook_event' = "BreakpointHit"
           Matches(b) ==
               /\ b.enabled
               /\ b.line = mgr'.line
               /\ \/ b.source_file = ""
                  \/ (mgr'.source # "" /\ SameFile(b.source_file, mgr'.source))
       IN  \A b \in Stored : \A c \in Stored' :
              (b.id = c.id) =>
                  c.hit_count = b.hit_count + (IF hit /\ Matches(b) THEN 1 ELSE 0)]_vars

\* ======================================================================
\* The inspection calls of the embedding API on the VM of SpecTrace:
\* ss_debug_get_stack_depth, ss_debug_get_frame and ss_debug_get_locals
\* (ss_embed.cpp:972-1027), each by depth.
\* ======================================================================

\* ss_embed.cpp:972-977
ss_debug_get_stack_depth ==
    Len(get_stack_trace)

\* ss_embed.cpp:979-1000: the entry of the trace at the depth, or
\* SS_ERROR_NOT_FOUND
ss_debug_get_frame(d) ==
    IF d >= Len(get_stack_trace)
    THEN [result |-> "SS_ERROR_NOT_FOUND", function_name |-> "", line |-> 0,
          frame_index |-> 0]
    ELSE [result |-> "SS_OK",
          function_name |-> get_stack_trace[d + 1].function_name,
          line |-> get_stack_trace[d + 1].line,
          frame_index |-> get_stack_trace[d + 1].frame_index]

\* ss_embed.cpp:1002-1027, with room for every local in out_vars: the depth
\* is handed to get_locals as the frame index.
ss_debug_get_locals(frame_depth) ==
    get_locals(frame_depth + 1)

NoFrame ==
    [result |-> "", function_name |-> "", line |-> 0, frame_index |-> 0]

ApiStep ==
    /\ InsStep(Values) \/ InsCall(Bodies \ {1}) \/ InsReturn(Values)
    /\ api' = <<>>

ApiGetFrame ==
    /\ \E d \in 0..MaxFrames :
          api' = [op |-> "get_frame", depth |-> d, frame |-> ss_debug_get_frame(d),
                  vars |-> <<>>]
    /\ UNCHANGED <<insVars, stack_, call_frames_>>

ApiGetLocals ==
    /\ \E d \in 0..(MaxFrames - 1) :
          api' = [op |-> "get_locals", depth |-> d, frame |-> NoFrame,
                  vars |-> ss_debug_get_locals(d)]
    /\ UNCHANGED <<insVars, stack_, call_frames_>>

nonApiVars == <<ctlVars, vmVars, hookVars, histVars, dapVars, upvalues, closures,
                latest, last_read, propVars, inhVars, evtVars, accVars,
                code_, cli, nat, mgr, reg, wire, insp>>

ApiNext ==
    \/ ApiStep /\ UNCHANGED nonApiVars
    \/ ApiGetFrame /\ UNCHANGED nonApiVars
    \/ ApiGetLocals /\ UNCHANGED nonApiVars

SpecApi == InsInit /\ [][ApiNext]_vars

\* C36: for every depth below ss_debug_get_stack_depth, what
\* ss_debug_get_locals gave for the depth is the locals of the frame that
\* ss_debug_get_frame describes at that depth.
C36_LocalsOfDescribedFrame ==
    (/\ api # <<>>
     /\ api.op = "get_locals"
     /\ api.depth < ss_debug_get_stack_depth) =>
        api.vars = get_locals(ss_debug_get_frame(api.depth).frame_index)

\* ======================================================================
\* The process-wide registry of native functions (spec 4.G) and the
\* contexts of the embedding API that register bridge functions in it
\* (ss_embed.cpp:207-271, 560-590).
\* ======================================================================
\* Largest number of contexts alive at once.
MaxContexts == 3

Contexts == 1..MaxContexts

\* The names the host registers functions under.
ScriptNames == {"f", "g"}

\* NativeRegistry::instance() as the process starts: no function, no
\* context.
RegStart ==
    /\ reg = <<>>
    /\ reg' = [functions |-> [name \in ScriptNames |-> 0],
               contexts |-> [c \in Contexts |->
                                [live |-> FALSE, registered_functions |-> {}]]]

\* NativeRegistry::register_function: the name maps to the callback given
\* (here: to the context the bridge captures).
register_function(functions, name, ctx) ==
    [functions EXCEPT ![name] = ctx]

\* NativeRegistry::unregister_function: the entry of the name goes.
unregister_function(functions, name) ==
    [functions EXCEPT ![name] = 0]

\* ss_create_context (ss_embed.cpp:243-259)
RegCreateContext ==
    /\ reg # <<>>
    /\ \E c \in Contexts :
          /\ ~reg.contexts[c].live
          /\ reg' = [reg EXCEPT !.contexts[c] =
                        [live |-> TRUE, registered_functions |-> {}]]

\* ss_register_function (ss_embed.cpp:560-576) with register_bridge_function
\* (ss_embed.cpp:207-235)
RegRegister ==
    /\ reg # <<>>
    /\ \E c \in Contexts, name \in ScriptNames :
          /\ reg.contexts[c].live
          /\ reg' = [reg EXCEPT
                        !.contexts[c].registered_functions = @ \cup {name},
                        !.functions = register_function(@, name, c)]

\* ss_unregister_function (ss_embed.cpp:578-590): SS_ERROR_NOT_FOUND for a
\* name the context has not registered
RegUnregister ==
    /\ reg # <<>>
    /\ \E c \in Contexts, name \in ScriptNames :
          /\ reg.contexts[c].live
          /\ IF name \notin reg.contexts[c].registered_functions
             THEN reg' = reg
             ELSE reg' = [reg EXCEPT
                             !.functions = unregister_function(@, name),
                             !.contexts[c].registered_functions = @ \ {name}]

RECURSIVE UnregisterAll(_, _)
\* ss_embed.cpp:266-268: the loop over the context's registered_functions
UnregisterAll(functions, names) ==
    IF names = {} THEN functions
    ELSE LET name == CHOOSE n \in names : TRUE
         IN  UnregisterAll(unregister_function(functions, name), names \ {name})

\* ss_destroy_context (ss_embed.cpp:261-271)
RegDestroyContext ==
    /\ reg # <<>>
    /\ \E c \in Contexts :
          /\ reg.contexts[c].live
          /\ reg' = [reg EXCEPT
                        !.functions =
                            UnregisterAll(@, reg.contexts[c].registered_functions),
                        !.contexts[c] = [live |-> FALSE, registered_functions |-> {}]]

nonRegVars == <<ctlVars, vmVars, hookVars, histVars, dapVars, upvVars, propVars, inhVars,
                evtVars, insVars, accVars, code_, cli, nat, mgr, api, wire, insp>>

RegNext ==
    \/ RegStart /\ UNCHANGED nonRegVars
    \/ RegCreateContext /\ UNCHANGED nonRegVars
    \/ RegRegister /\ UNCHANGED nonRegVars
    \/ RegUnregister /\ UNCHANGED nonRegVars
    \/ RegDestroyContext /\ UNCHANGED nonRegVars

SpecReg == InsInit /\ [][RegNext]_vars

\* C37: every name that a live context has registered and not unregistered
\* is present in the process-wide registry.
C37_LiveRegistrationsPresent ==
    reg # <<>> =>
        \A c \in Contexts : \A name \in ScriptNames :
            (reg.contexts[c].live /\ name \in reg.contexts[c].registered_functions)
                => reg.functions[name] # 0

\* ======================================================================
\* The sending side of the DAP connection: SendResponse, SendErrorResponse
\* and SendEvent (dap_server.cpp:395-426) called by the adapter thread and
\* by the execution thread, over DapConnection::Send
\* (dap_connection.cpp:94-98, 169-182).
\* ======================================================================
\* Largest number of messages sent over one connection.
MaxMessages == 4

Senders == {"adapter", "execution"}

\* A server with a client connected: seq_counter_ is 1
\* (dap_server.hpp:106), both mutexes are free, nothing is written.
WireConnect ==
    /\ wire = <<>>
    /\ wire' = [seq_counter_ |-> 1, write_mutex_ |-> "free",
                pc |-> [t \in Senders |-> "idle"],
                seq |-> [t \in Senders |-> 0],
                written |-> <<>>]

\* The first statement of the three Send functions: the message takes the
\* next seq under seq_mutex_, which is released at once.
WireTakeSeq(t) ==
    /\ wire.pc[t] = "idle"
    /\ wire.seq_counter_ <= MaxMessages
    /\ wire' = [wire EXCEPT !.seq[t] = wire.seq_counter_,
                            !.seq_counter_ = @ + 1,
                            !.pc[t] = "built"]

\* DapConnection::Send: std::lock_guard lock(write_mutex_)
WireLock(t) ==
    /\ wire.pc[t] = "built"
    /\ wire.write_mutex_ = "free"
    /\ wire' = [wire EXCEPT !.write_mutex_ = t, !.pc[t] = "header"]

\* WriteRaw(header + json): the bytes go out in one or more writes, here
\* the header and then the body.
WireWriteHeader(t) ==
    /\ wire.pc[t] = "header"
    /\ wire' = [wire EXCEPT
                   !.written = Append(@, [seq |-> wire.seq[t], part |-> "header"]),
                   !.pc[t] = "body"]

\* The rest of the bytes; Send returns and the lock is released.
WireWriteBody(t) ==
    /\ wire.pc[t] = "body"
    /\ wire' = [wire EXCEPT
                   !.written = Append(@, [seq |-> wire.seq[t], part |-> "body"]),
                   !.write_mutex_ = "free",
                   !.pc[t] = "idle"]

nonWireVars == <<ctlVars, vmVars, hookVars, histVars, dapVars, upvVars, propVars, inhVars,
                 evtVars, insVars, accVars, code_, cli, nat, mgr, api, reg, insp>>

WireNext ==
    \/ WireConnect /\ UNCHANGED nonWireVars
    \/ \E t \in Senders : wire # <<>> /\ WireTakeSeq(t) /\ UNCHANGED nonWireVars
    \/ \E t \in Senders : wire # <<>> /\ WireLock(t) /\ UNCHANGED nonWireVars
    \/ \E t \in Senders : wire # <<>> /\ WireWriteHeader(t) /\ UNCHANGED nonWireVars
    \/ \E t \in Senders : wire # <<>> /\ WireWriteBody(t) /\ UNCHANGED nonWireVars

SpecWire == InsInit /\ [][WireNext]_vars

\* Each header on the transport is followed at once by the body of the same
\* message.
Contiguous ==
    wire # <<>> =>
        \A k \in 1..Len(wire.written) :
            IF wire.written[k].part = "header"
            THEN k < Len(wire.written) =>
                    /\ wire.written[k + 1].part = "body"
                    /\ wire.written[k + 1].seq = wire.written[k].seq
            ELSE /\ k > 1
                 /\ wire.written[k - 1].part = "header"
                 /\ wire.written[k - 1].seq = wire.written[k].seq

\* C38: the messages appear on the transport in strictly increasing seq
\* order, each with its header and body written contiguously.
C38_MessagesInSeqOrder ==
    /\ Contiguous
    /\ wire # <<>> =>
          \A j, k \in 1..Len(wire.written) :
              (j < k /\ wire.written[j].part = "header"
                     /\ wire.written[k].part = "header")
                  => wire.written[j].seq < wire.written[k].seq

\* ======================================================================
\* The session of SpecDap with the inspection requests: stackTrace and
\* variables (dap_server.cpp:254-325), served by the adapter thread, which
\* reads the VM's operand stack and call frames through get_stack_trace
\* and get_locals.
\* ======================================================================

\* Mutant: the inspection requests do not test is_paused().
InspectionAllowed_Unchecked ==
    vm_launched

\* dap_server.cpp:255, 298: vm_ && controller_.is_paused()
InspectionAllowed ==
    vm_launched /\ paused_

\* The adapter thread is inside get_stack_trace or get_locals.
Reading ==
    apc \in {"get_stack_trace", "get_locals"}

\* dap_server.cpp:254-259, 296-301: the test, and the error response when
\* it fails; 260, 305: into get_stack_trace when it holds
InspectionBegin(request) ==
    /\ AdapterIdle
    /\ IF InspectionAllowed
       THEN /\ apc' = "get_stack_trace"
            /\ acmd' = request
            /\ insp' = [request |-> request, response |-> "none"]
       ELSE /\ insp' = [request |-> request, response |-> "VM is not paused."]
            /\ UNCHANGED <<apc, acmd>>
    /\ UNCHANGED <<ctlVars, vmVars, hookVars, histVars, mutex_, stop_on_entry_,
                   entry_reported_, vm_launched, vm_running_, disconnecting_,
                   stopped_events, upvVars, propVars, inhVars, evtVars, insVars,
                   accVars, code_, cli, nat, mgr, api, reg, wire>>

OnStackTrace ==
    InspectionBegin("stackTrace")

OnVariables ==
    InspectionBegin("variables")

\* get_stack_trace returns: stackTrace sends its response
\* (dap_server.cpp:261-280), variables goes on to get_locals
\* (dap_server.cpp:309-311).
InspectionTraceRead ==
    /\ apc = "get_stack_trace"
    /\ IF acmd = "variables"
       THEN /\ apc' = "get_locals"
            /\ UNCHANGED <<acmd, insp>>
       ELSE /\ apc' = "idle"
            /\ acmd' = "none"
            /\ insp' = [insp EXCEPT !.response = "stackFrames"]
    /\ UNCHANGED <<ctlVars, vmVars, hookVars, histVars, mutex_, stop_on_entry_,
                   entry_reported_, vm_launched, vm_running_, disconnecting_,
                   stopped_events, upvVars, propVars, inhVars, evtVars, insVars,
                   accVars, code_, cli, nat, mgr, api, reg, wire>>

\* get_locals returns: variables sends its response (dap_server.cpp:312-324).
InspectionLocalsRead ==
    /\ apc = "get_locals"
    /\ apc' = "idle"
    /\ acmd' = "none"
    /\ insp' = [insp EXCEPT !.response = "variables"]
    /\ UNCHANGED <<ctlVars, vmVars, hookVars, histVars, mutex_, stop_on_entry_,
                   entry_reported_, vm_launched, vm_running_, disconnecting_,
                   stopped_events, upvVars, propVars, inhVars, evtVars, insVars,
                   accVars, code_, cli, nat, mgr, api, reg, wire>>

InspNext ==
    \/ DapNext
    \/ Running /\ OnStackTrace
    \/ Running /\ OnVariables
    \/ InspectionTraceRead
    \/ InspectionLocalsRead

SpecInsp == DapInit /\ [][InspNext]_vars

\* The execution thread is held in the pause of on_instruction: it has set
\* paused_ and is at or in the wait.
HeldInPause ==
    paused_ /\ vm_pc \in {"check", "block", "waiting"}

\* C39: the adapter thread is inside get_stack_trace or get_locals only
\* while the execution thread is held in the pause of on_instruction, and
\* stays held until the read is over; an inspection request that finds the
\* controller not paused is answered with an error and reads nothing.
C39_ReadsOnlyWhileHeld ==
    [][/\ Reading' => HeldInPause'
       /\ Reading => (vm_pc' # "run" /\ paused_')
       /\ (AdapterIdle /\ insp' # insp /\ ~paused_) =>
             (insp'.response = "VM is not paused." /\ ~Reading')]_vars

\* C39 witness: the adapter is inside get_locals for a variables request
\* while the execution thread is blocked in the wait of a step's pause.
C39_Witness ==
    /\ apc = "get_locals"
    /\ acmd = "variables"
    /\ vm_pc = "waiting"
    /\ paused_
    /\ cmd_at_pause = "step_over"

\* An inspection request has been refused while the VM was dispatching.
InspectionRefused ==
    /\ insp # <<>>
    /\ insp.response = "VM is not paused."
    /\ vm_pc = "run"
    /\ apc = "idle"

====
